---- MODULE Spec2Model ----
(***************************************************************************)
(* A model of the SRL rule engine (py-srl): solution-mapping algebra,      *)
(* rule-body evaluation, stratification and the per-stratum fixpoint       *)
(* driver of RuleEngine.                                                   *)
(*                                                                         *)
(* RDF terms of the graph are strings (rdflib's URIRef is a str); AST      *)
(* nodes are records carrying their class name in the field "type".        *)
(* Python's Optional results are sequences of length 0 (None) or 1.        *)
(* Rule indices and stratum numbers are 0-based as in the source; the      *)
(* rule list itself is a TLA+ sequence, so rule i is rules[i + 1].         *)
(***************************************************************************)
EXTENDS Integers, Sequences, FiniteSets, TLC

VARIABLES
    rule_set,        \* RuleEngine.rule_set.rules
    max_iterations,  \* RuleEngine.max_iterations
    strata,          \* RuleEngine.strata (cached stratification)
    graph,           \* the caller's graph object (its set of triples)
    result_graph,    \* evaluate: result_graph, when it is a separate object
    inplace,         \* evaluate: argument
    results_only,    \* evaluate: argument
    pc,              \* position in the running method
    ret_pc,          \* where stratify() returns to
    dependencies,    \* stratify_rules: dependencies
    stratum,         \* assign_strata: stratum
    changed,         \* assign_strata: changed
    pass,            \* assign_strata: iteration
    stratum_num,     \* evaluate: index of the stratum being evaluated
    iteration,       \* _evaluate_stratum: iteration
    rule_pos,        \* _evaluate_stratum: position in rule_indices
    delta,           \* _evaluate_stratum: delta
    broke,           \* _evaluate_stratum: the loop was left by `break`
    warned,          \* strata for which warnings.warn was called in this call
    cap_hit,         \* strata of this call left by the while condition
    outcome,         \* what the last call did: "none", "returned", or the exception
    returned,        \* the triples of the graph returned by the last call
    call_input,      \* the triples of the caller's graph when evaluate was called
    history,         \* the caller's record of completed calls
    evals,           \* the rule evaluations of the running call, in order
    fn_call,         \* a function of the engine called directly, with its arguments
    fn_result        \* what that call returned, once it has

vars == <<rule_set, max_iterations, strata, graph, result_graph, inplace,
          results_only, pc, ret_pc, dependencies, stratum, changed, pass,
          stratum_num, iteration, rule_pos, delta, broke, warned, cap_hit,
          outcome, returned, call_input, history, evals, fn_call, fn_result>>

----------------------------------------------------------------------------
(* Generic helpers *)

Range(s) == {s[i] : i \in DOMAIN s}

RECURSIVE Flatten(_)
Flatten(ss) == IF ss = <<>> THEN <<>> ELSE Head(ss) \o Flatten(Tail(ss))

RECURSIVE SetToSeq(_)
\* Throughout, CHOOSE res \in {e(v) : v \in {a}} : TRUE is e(a) with a
\* evaluated once, the way the code binds a local variable.
SetToSeq(S) ==
    IF S = {} THEN <<>>
    ELSE CHOOSE res \in {<<x>> \o SetToSeq(S \ {x}) : x \in {CHOOSE y \in S : TRUE}} : TRUE

\* iteration order of a Python set of small ints: ascending
RECURSIVE SortedSeq(_)
SortedSeq(S) ==
    IF S = {} THEN <<>>
    ELSE LET x == CHOOSE y \in S : \A z \in S : y <= z
         IN <<x>> \o SortedSeq(S \ {x})

Max(a, b) == IF a >= b THEN a ELSE b

MaxOfSet(S) == CHOOSE y \in S : \A z \in S : z <= y

\* the decimal numeral of a natural number, as a string
RECURSIVE numeral(_)
numeral(n) ==
    IF n < 10 THEN <<"0", "1", "2", "3", "4", "5", "6", "7", "8", "9">>[n + 1]
    ELSE numeral(n \div 10) \o numeral(n % 10)

----------------------------------------------------------------------------
(* AST nodes (ast/nodes.py) *)

Variable(n) == [type |-> "Variable", name |-> n]
IRI(v) == [type |-> "IRI", value |-> v]
TriplePattern(s, p, o) ==
    [type |-> "TriplePattern", subject |-> s, predicate |-> p, object |-> o]
TripleTemplate(s, p, o) ==
    [type |-> "TripleTemplate", subject |-> s, predicate |-> p, object |-> o]
NegationElement(ps) == [type |-> "NegationElement", body_patterns |-> ps]
BlankNode(l) == [type |-> "BlankNode", label |-> l]
InversePath(p) == [type |-> "InversePath", path |-> p]
PathSequence(es) == [type |-> "PathSequence", elements |-> es]
PathAlternative(as) == [type |-> "PathAlternative", alternatives |-> as]
PropertyPathTypes == {"InversePath", "PathSequence", "PathAlternative"}
Rule(h, b) == [head |-> h, body |-> b]

None == "None"

----------------------------------------------------------------------------
(* Solution mappings (engine/solutions.py) *)

EmptyMapping == [v \in {} |-> None]

\* compatible, forgetting to compare the shared variables
compatible_mut(mu1, mu2) == TRUE

compatible(mu1, mu2) ==
    \A v \in (DOMAIN mu1) \cap (DOMAIN mu2) : mu1[v] = mu2[v]

\* merge keeping the bindings of mu2 only
merge_mut(mu1, mu2) ==
    IF ~compatible(mu1, mu2) THEN <<>> ELSE <<mu2>>

merge(mu1, mu2) ==
    IF ~compatible(mu1, mu2) THEN <<>>
    ELSE << [v \in (DOMAIN mu1) \cup (DOMAIN mu2) |->
                IF v \in DOMAIN mu2 THEN mu2[v] ELSE mu1[v]] >>

join(omega1, omega2) ==
    Flatten([i \in 1..Len(omega1) |->
        Flatten([j \in 1..Len(omega2) |-> merge(omega1[i], omega2[j])])])

\* minus dropping every mapping as soon as omega2 has a mapping
minus_mut(omega1, omega2) ==
    IF omega2 = <<>> THEN omega1 ELSE <<>>

minus(omega1, omega2) ==
    LET keep(mu1) == ~\E j \in 1..Len(omega2) : compatible(mu1, omega2[j])
    IN SelectSeq(omega1, keep)

ValueError == "ValueError"

\* the N3 form of a string of characters
RECURSIVE Concat(_)
Concat(cs) == IF cs = <<>> THEN "" ELSE Head(cs) \o Concat(Tail(cs))

\* the term rdflib.Literal(lexical, datatype=datatype, lang=language)
RDFLiteral(lexical, dt, language) ==
    "\"" \o Concat(lexical) \o "\""
    \o (IF language # None THEN "@" \o language
        ELSE IF dt # None THEN "^^" \o dt ELSE "")

\* the bindings of a solution mapping, written out in one string
mapping_key(mu) ==
    CHOOSE res \in {Concat([i \in DOMAIN vs |-> "?" \o vs[i] \o "=" \o mu[vs[i]]])
                    : vs \in {SetToSeq(DOMAIN mu)}} : TRUE

\* rdflib BNode() without a label: an identifier that no other call of BNode()
\* returns. The node is named after the call that creates it: the call of
\* evaluate, the rule evaluation within it, and the solution mapping being
\* instantiated (a rule creates at most one node for each mapping here).
new_bnode(mu) ==
    "_:n" \o numeral(Len(history)) \o "." \o numeral(Len(evals)) \o mapping_key(mu)

\* substitute_term: the bound term, or the ValueError it raises
substitute_term(term, mu) ==
    IF term.type = "Variable"
    THEN IF term.name \in DOMAIN mu THEN mu[term.name] ELSE ValueError
    ELSE IF term.type = "Literal" THEN RDFLiteral(term.value, term.datatype, None)
    ELSE IF term.type = "BlankNode"
    THEN IF term.label # "" THEN "_:" \o term.label ELSE new_bnode(mu)
    ELSE term.value

substitute_triple_template(template, mu) ==
    LET subj == substitute_term(template.subject, mu)
        pred == substitute_term(template.predicate, mu)
        obj  == substitute_term(template.object, mu)
    IN IF ValueError \in {subj, pred, obj} THEN <<>>
       ELSE << <<subj, pred, obj>> >>

pattern_term(term) ==
    IF term.type = "Variable" THEN None
    ELSE IF term.type = "Literal" THEN RDFLiteral(term.value, term.datatype, None)
    ELSE IF term.type = "BlankNode"
    THEN IF term.label # "" THEN "_:" \o term.label ELSE new_bnode(EmptyMapping)
    ELSE IF term.type \in PropertyPathTypes THEN term
    ELSE term.value

\* rdflib Graph.triples((s, p, o)) with None as the wildcard
triples(g, s, p, o) ==
    {t \in g : /\ (s = None \/ t[1] = s)
               /\ (p = None \/ t[2] = p)
               /\ (o = None \/ t[3] = o)}

\* the bindings dict graphMatch builds for one matched triple
match_bindings(pattern, t) ==
    LET b0 == EmptyMapping
        b1 == IF pattern.subject.type = "Variable"
              THEN (pattern.subject.name :> t[1]) @@ b0 ELSE b0
        b2 == IF pattern.predicate.type = "Variable"
              THEN (pattern.predicate.name :> t[2]) @@ b1 ELSE b1
        b3 == IF pattern.object.type = "Variable"
              THEN (pattern.object.name :> t[3]) @@ b2 ELSE b2
    IN b3

\* evaluate_path, PathSequence: `for element in path.elements[1:]`, joining
\* the pairs found so far with the pairs of the next element
RECURSIVE evaluate_path(_, _), path_chain(_, _, _)
path_chain(g, current_results, elements) ==
    IF elements = <<>> THEN current_results
    ELSE CHOOSE res \in
           {path_chain(g,
                       {<<ab[1][1], ab[2][2]>>
                        : ab \in {x \in current_results \X next_step : x[1][2] = x[2][1]}},
                       Tail(elements))
            : next_step \in {evaluate_path(g, Head(elements))}} : TRUE

\* evaluate_path: the (start, end) pairs of a property path
evaluate_path(g, path) ==
    IF path.type = "IRI"
    THEN {<<t[1], t[3]>> : t \in triples(g, None, path.value, None)}
    ELSE IF path.type = "InversePath"
    THEN {<<pr[2], pr[1]>> : pr \in evaluate_path(g, path.path)}
    ELSE IF path.type = "PathSequence"
    THEN IF path.elements = <<>> THEN {}
         ELSE path_chain(g, evaluate_path(g, Head(path.elements)), Tail(path.elements))
    ELSE UNION {evaluate_path(g, path.alternatives[i]) : i \in DOMAIN path.alternatives}

\* graphMatchWithPath: the pair is skipped when a constant subject or object
\* differs from its start or end
path_bindings(subject_pattern, object_pattern, pr) ==
    LET b1 == IF subject_pattern.type = "Variable"
              THEN (subject_pattern.name :> pr[1]) ELSE EmptyMapping
    IN IF subject_pattern.type # "Variable" /\ pattern_term(subject_pattern) # pr[1]
       THEN <<>>
       ELSE IF object_pattern.type = "Variable"
       THEN <<(object_pattern.name :> pr[2]) @@ b1>>
       ELSE IF pattern_term(object_pattern) # pr[2] THEN <<>>
       ELSE <<b1>>

graphMatchWithPath(g, subject_pattern, path, object_pattern) ==
    CHOOSE res \in
      {Flatten([i \in DOMAIN path_results |->
                  path_bindings(subject_pattern, object_pattern, path_results[i])])
       : path_results \in {SetToSeq(evaluate_path(g, path))}} : TRUE

\* The order in which rdflib yields the matched triples is not specified;
\* the driver collects head instances into a set, so one order is modelled.
graphMatch(g, pattern) ==
    LET subj == pattern_term(pattern.subject)
        pred == pattern_term(pattern.predicate)
        obj  == pattern_term(pattern.object)
    IN IF pattern.predicate.type \in PropertyPathTypes
       THEN graphMatchWithPath(g, pattern.subject, pred, pattern.object)
       ELSE CHOOSE res \in
              {[i \in 1..Len(matched) |-> match_bindings(pattern, matched[i])]
               : matched \in {SetToSeq(triples(g, subj, pred, obj))}} : TRUE

----------------------------------------------------------------------------
(* RDF literals (rdflib.Literal as the engine uses it)                      *)
(* A literal term is named by its N3 form; its lexical form is a sequence   *)
(* of characters, so that lengths, slices, orderings and number parsing     *)
(* are computed from it.                                                    *)

\* the characters of the lexical forms, in code-point order
Alphabet ==
    <<"-", ".", "0", "1", "2", "3", "4", "5", "6", "7", "8", "9",
      "N", "a", "b", "c", "e", "f", "l", "r", "s", "t", "u">>

ord(c) == CHOOSE i \in DOMAIN Alphabet : Alphabet[i] = c

DigitChars == <<"0", "1", "2", "3", "4", "5", "6", "7", "8", "9">>

IsDigit(c) == \E i \in DOMAIN DigitChars : DigitChars[i] = c

digit(c) == (CHOOSE i \in DOMAIN DigitChars : DigitChars[i] = c) - 1

Lit(lexical, datatype, language) ==
    [lexical |-> lexical, datatype |-> datatype, language |-> language]

IntegerLexicals ==
    {<<"0">>, <<"1">>, <<"2">>, <<"3">>, <<"1", "6">>, <<"1", "8">>, <<"2", "5">>}

PlainLexicals ==
    {<<>>, <<"a">>, <<"b">>, <<"c">>, <<"a", "b">>, <<"b", "c">>, <<"a", "b", "c">>,
     <<"9">>}

\* the literals of the model
KnownLiterals ==
    {Lit(lx, "xsd:integer", None) : lx \in IntegerLexicals \cup {<<"a", "b", "c">>}}
    \cup {Lit(lx, "xsd:int", None) : lx \in {<<"0">>, <<"5">>}}
    \cup {Lit(<<"2", "0">>, "xsd:long", None),
          Lit(<<"0">>, "xsd:nonNegativeInteger", None),
          Lit(<<"3">>, "xsd:nonNegativeInteger", None),
          Lit(<<"0", ".", "0">>, "xsd:decimal", None),
          Lit(<<"1", ".", "5">>, "xsd:decimal", None),
          Lit(<<"0", ".", "0">>, "xsd:double", None),
          Lit(<<"N", "a", "N">>, "xsd:double", None),
          Lit(<<"1", ".", "5">>, "xsd:float", None),
          Lit(<<"t", "r", "u", "e">>, "xsd:boolean", None),
          Lit(<<"f", "a", "l", "s", "e">>, "xsd:boolean", None),
          Lit(<<>>, "xsd:string", None),
          Lit(<<"a", "b", "c">>, "xsd:string", None),
          Lit(<<"a", "b", "c">>, None, "en"),
          Lit(<<"2", "0", "2", "0">>, "xsd:gYear", None)}
    \cup {Lit(lx, None, None) : lx \in PlainLexicals}

LiteralTerms == {RDFLiteral(l.lexical, l.datatype, l.language) : l \in KnownLiterals}

\* the lexical form, datatype and language of a literal term
LiteralTable ==
    [t \in LiteralTerms |->
        CHOOSE l \in KnownLiterals : RDFLiteral(l.lexical, l.datatype, l.language) = t]

\* the terms that are not literals: IRIs and a blank node, with their str()
OtherTerms == {"a", "b", "_:b"}
OtherTermStr == ("a" :> <<"a">>) @@ ("b" :> <<"b">>) @@ ("_:b" :> <<"b">>)

Terms == LiteralTerms \cup OtherTerms

\* isinstance(term, RDFLiteral), for a term or None
IsLiteral(term) == term \notin OtherTerms \cup {None}

\* str(term)
str(term) == IF IsLiteral(term) THEN LiteralTable[term].lexical ELSE OtherTermStr[term]

\* term.datatype of a literal
datatype(term) == LiteralTable[term].datatype

\* Python's int(s) accepts this string (sign and digits)
is_int_lexical(cs) ==
    LET ds == IF cs # <<>> /\ Head(cs) = "-" THEN Tail(cs) ELSE cs
    IN ds # <<>> /\ \A i \in DOMAIN ds : IsDigit(ds[i])

RECURSIVE digits_value(_, _)
digits_value(ds, acc) ==
    IF ds = <<>> THEN acc ELSE digits_value(Tail(ds), 10 * acc + digit(Head(ds)))

\* int(s) for a string that int accepts
int_value(cs) ==
    IF Head(cs) = "-" THEN 0 - digits_value(Tail(cs), 0) ELSE digits_value(cs, 0)

\* a decimal numeral with one fractional digit
is_decimal_lexical(cs) ==
    /\ Len(cs) >= 3
    /\ cs[Len(cs) - 1] = "."
    /\ IsDigit(cs[Len(cs)])
    /\ is_int_lexical(SubSeq(cs, 1, Len(cs) - 2))

\* Python values: numbers are kept in tenths
PyValue(kind, n) == [kind |-> kind, n |-> n]

IntegerDatatypes ==
    {"xsd:integer", "xsd:int", "xsd:long", "xsd:short", "xsd:byte",
     "xsd:nonNegativeInteger", "xsd:positiveInteger", "xsd:unsignedLong",
     "xsd:unsignedInt", "xsd:unsignedShort", "xsd:unsignedByte",
     "xsd:nonPositiveInteger", "xsd:negativeInteger"}

FloatDatatypes == {"xsd:decimal", "xsd:double", "xsd:float"}

\* term.value of a literal: the Python value rdflib converts the lexical form
\* to, None for an ill-typed literal
term_value(term) ==
    LET cs == LiteralTable[term].lexical
        dt == LiteralTable[term].datatype
    IN IF dt \in IntegerDatatypes
       THEN IF is_int_lexical(cs) THEN PyValue("int", 10 * int_value(cs))
            ELSE PyValue("None", 0)
       ELSE IF dt \in FloatDatatypes
       THEN IF cs = <<"N", "a", "N">> THEN PyValue("nan", 0)
            ELSE IF is_int_lexical(cs) THEN PyValue("float", 10 * int_value(cs))
            ELSE IF is_decimal_lexical(cs)
            THEN PyValue("float", 10 * int_value(SubSeq(cs, 1, Len(cs) - 2))
                                     + digit(cs[Len(cs)]))
            ELSE PyValue("None", 0)
       ELSE IF dt = "xsd:boolean"
       THEN PyValue("bool", IF cs \in {<<"t", "r", "u", "e">>, <<"1">>} THEN 1 ELSE 0)
       ELSE PyValue("str", 0)

RECURSIVE str_of_nat(_)
str_of_nat(n) ==
    IF n < 10 THEN <<DigitChars[n + 1]>>
    ELSE str_of_nat(n \div 10) \o <<DigitChars[(n % 10) + 1]>>

\* str(n) of a Python int
str_of_int(n) == IF n < 0 THEN <<"-">> \o str_of_nat(0 - n) ELSE str_of_nat(n)

\* Python's s1 < s2 on strings
RECURSIVE str_less(_, _)
str_less(s1, s2) ==
    IF s2 = <<>> THEN FALSE
    ELSE IF s1 = <<>> THEN TRUE
    ELSE IF Head(s1) # Head(s2) THEN ord(Head(s1)) < ord(Head(s2))
    ELSE str_less(Tail(s1), Tail(s2))

\* Python's s[lo:hi]
py_slice(s, lo, hi) ==
    LET n == Len(s)
        norm(i) == IF i < 0 THEN Max(n + i, 0) ELSE IF i > n THEN n ELSE i
    IN IF norm(lo) >= norm(hi) THEN <<>> ELSE SubSeq(s, norm(lo) + 1, norm(hi))

----------------------------------------------------------------------------
(* Expressions (ast/nodes.py, engine/expressions.py) *)

Literal(lexical, dt) == [type |-> "Literal", value |-> lexical, datatype |-> dt]
BinaryOp(op, l, r) == [type |-> "BinaryOp", operator |-> op, left |-> l, right |-> r]
BuiltInCall(name, args) ==
    [type |-> "BuiltInCall", function_name |-> name, arguments |-> args]
ConditionExpression(e) == [type |-> "ConditionExpression", expression |-> e]
Assignment(v, e) == [type |-> "Assignment", variable |-> v, expression |-> e]

\* exceptions that are raised through eval_expr, and the one it catches
TypeError == "TypeError"
EvaluationError == "EvaluationError"
IsException(v) == v \in {TypeError, ValueError}

\* the first exception among values computed in order
first_exception(values) ==
    values[CHOOSE i \in DOMAIN values :
              IsException(values[i]) /\ \A j \in 1..(i - 1) : ~IsException(values[j])]

\* RDFLiteral(True) / RDFLiteral(result, datatype=XSD.boolean)
BooleanLiteral(b) ==
    RDFLiteral(IF b THEN <<"t", "r", "u", "e">> ELSE <<"f", "a", "l", "s", "e">>,
               "xsd:boolean", None)

is_numeric(term) ==
    IF ~IsLiteral(term) THEN FALSE
    ELSE datatype(term) \in IntegerDatatypes \cup FloatDatatypes

\* effective_boolean_value: a numeric branch for four datatypes only
effective_boolean_value(term) ==
    IF term = None THEN FALSE
    ELSE IF IsLiteral(term)
    THEN CHOOSE res \in
           {IF dt = "xsd:boolean" THEN v.n = 1
            ELSE IF dt = "xsd:string" \/ dt = None THEN Len(str(term)) > 0
            ELSE IF dt \in {"xsd:integer", "xsd:decimal", "xsd:double", "xsd:float"}
            THEN IF v.kind \in {"int", "float"} THEN v.n # 0
                 ELSE FALSE      \* NaN, or float(None) caught by the bare except
            ELSE FALSE
            : dt \in {datatype(term)}, v \in {term_value(term)}} : TRUE
    ELSE FALSE

\* numeric_value: int(term.value) or float(term.value); both raise TypeError
\* on the None of an ill-typed literal
numeric_value(term) ==
    CHOOSE res \in
      {IF v.kind = "None" THEN [raised |-> TypeError, kind |-> "None", n |-> 0]
       ELSE [raised |-> None, kind |-> IF v.kind = "nan" THEN "nan" ELSE "num", n |-> v.n]
       : v \in {term_value(term)}} : TRUE

rdf_equal(term1, term2) ==
    IF term1 = term2 THEN TRUE
    ELSE IF IsLiteral(term1) /\ IsLiteral(term2)
    THEN IF is_numeric(term1) /\ is_numeric(term2)
         THEN CHOOSE res \in
                {IF v1.raised # None \/ v2.raised # None THEN FALSE
                 ELSE v1.kind = "num" /\ v2.kind = "num" /\ v1.n = v2.n
                 : v1 \in {numeric_value(term1)}, v2 \in {numeric_value(term2)}} : TRUE
         ELSE CHOOSE res \in
                {IF dt1 = dt2 \/ (dt1 \in {None, "xsd:string"} /\ dt2 \in {None, "xsd:string"})
                 THEN str(term1) = str(term2)
                 ELSE FALSE
                 : dt1 \in {datatype(term1)}, dt2 \in {datatype(term2)}} : TRUE
    ELSE FALSE

\* the sign of a comparison that does not raise
Sign(less, greater) ==
    [raised |-> None, sign |-> IF less THEN -1 ELSE IF greater THEN 1 ELSE 0]

\* rdf_compare: the sign, or the exception numeric_value raised
rdf_compare(term1, term2) ==
    IF is_numeric(term1) /\ is_numeric(term2)
    THEN CHOOSE res \in
           {IF v1.raised # None THEN [raised |-> v1.raised, sign |-> 0]
            ELSE IF v2.raised # None THEN [raised |-> v2.raised, sign |-> 0]
            ELSE IF v1.kind = "nan" \/ v2.kind = "nan" THEN Sign(FALSE, FALSE)
            ELSE Sign(v1.n < v2.n, v1.n > v2.n)
            : v1 \in {numeric_value(term1)}, v2 \in {numeric_value(term2)}} : TRUE
    ELSE CHOOSE res \in
           {Sign(str_less(s1, s2), str_less(s2, s1))
            : s1 \in {str(term1)}, s2 \in {str(term2)}} : TRUE

\* the lexical form of a numeric result, kept in tenths
numeric_lexical(kind, n, dt) ==
    IF kind = "nan" THEN <<"N", "a", "N">>
    ELSE IF dt = "xsd:integer" THEN str_of_int(n \div 10)
    ELSE str_of_int(n \div 10) \o <<".">> \o str_of_nat(n % 10)

\* the datatype of an arithmetic result
promoted_datatype(dts) ==
    IF "xsd:double" \in dts THEN "xsd:double"
    ELSE IF "xsd:float" \in dts THEN "xsd:float"
    ELSE IF "xsd:decimal" \in dts THEN "xsd:decimal"
    ELSE "xsd:integer"

\* numeric_add and numeric_subtract, sign being 1 or -1
numeric_add_or_subtract(term1, term2, sign) ==
    IF ~(IsLiteral(term1) /\ IsLiteral(term2)) THEN None
    ELSE IF ~(is_numeric(term1) /\ is_numeric(term2)) THEN None
    ELSE CHOOSE res \in
           {IF v1.raised # None THEN v1.raised
            ELSE IF v2.raised # None THEN v2.raised
            ELSE RDFLiteral(numeric_lexical(IF v1.kind = "nan" \/ v2.kind = "nan"
                                            THEN "nan" ELSE "num",
                                            v1.n + sign * v2.n, dt), dt, None)
            : v1 \in {numeric_value(term1)}, v2 \in {numeric_value(term2)},
              dt \in {promoted_datatype({datatype(term1), datatype(term2)})}} : TRUE

builtin_strlen(args) ==
    IF Len(args) # 1 THEN None
    ELSE IF args[1] = None THEN None
    ELSE RDFLiteral(str_of_int(Len(str(args[1]))), "xsd:integer", None)

\* builtin_bnode: BNode() for no argument, BNode(label) for one; mu only names
\* the new node
builtin_bnode(args, mu) ==
    IF Len(args) = 0 THEN new_bnode(mu)
    ELSE IF Len(args) = 1 /\ args[1] # None THEN "_:" \o Concat(str(args[1]))
    ELSE None

\* builtin_substr: int(str(...)) raises ValueError on a string that is not an
\* integer numeral
builtin_substr(args) ==
    IF Len(args) < 2 THEN None
    ELSE IF args[1] = None \/ args[2] = None THEN None
    ELSE IF ~is_int_lexical(str(args[2])) THEN ValueError
    ELSE LET s == str(args[1])
             start == int_value(str(args[2])) - 1
         IN IF Len(args) >= 3 /\ args[3] # None
            THEN IF ~is_int_lexical(str(args[3])) THEN ValueError
                 ELSE RDFLiteral(py_slice(s, start, start + int_value(str(args[3]))),
                                 None, None)
            ELSE RDFLiteral(py_slice(s, start, Len(s)), None, None)

\* eval_binary_op once the operands are evaluated; right_val is looked at
\* only where the code evaluates the right operand
binary_op_result(operator, left_val, right_val) ==
    IF IsException(left_val) THEN left_val
    ELSE IF operator = "OR"
    THEN IF effective_boolean_value(left_val) THEN BooleanLiteral(TRUE)
         ELSE IF IsException(right_val) THEN right_val
         ELSE BooleanLiteral(effective_boolean_value(right_val))
    ELSE IF operator = "AND"
    THEN IF ~effective_boolean_value(left_val) THEN BooleanLiteral(FALSE)
         ELSE IF IsException(right_val) THEN right_val
         ELSE BooleanLiteral(effective_boolean_value(right_val))
    ELSE IF IsException(right_val) THEN right_val
    ELSE IF left_val = None \/ right_val = None THEN None
    ELSE IF operator = "EQ" THEN BooleanLiteral(rdf_equal(left_val, right_val))
    ELSE IF operator = "NE" THEN BooleanLiteral(~rdf_equal(left_val, right_val))
    ELSE IF operator \in {"LT", "LE", "GT", "GE"}
    THEN CHOOSE res \in
           {IF c.raised # None THEN c.raised
            ELSE IF operator = "LT" THEN BooleanLiteral(c.sign < 0)
            ELSE IF operator = "LE" THEN BooleanLiteral(c.sign <= 0)
            ELSE IF operator = "GT" THEN BooleanLiteral(c.sign > 0)
            ELSE BooleanLiteral(c.sign >= 0)
            : c \in {rdf_compare(left_val, right_val)}} : TRUE
    ELSE IF operator = "ADD" THEN numeric_add_or_subtract(left_val, right_val, 1)
    ELSE IF operator = "SUB" THEN numeric_add_or_subtract(left_val, right_val, -1)
    ELSE EvaluationError

RECURSIVE eval_expr(_, _), eval_expr_body(_, _), eval_binary_op(_, _), eval_builtin(_, _)

\* eval_expr: `except EvaluationError: return None`; other exceptions go through
eval_expr(expr, mu) ==
    CHOOSE res \in {IF r = EvaluationError THEN None ELSE r
                    : r \in {eval_expr_body(expr, mu)}} : TRUE

\* eval_expr: the body of the try block
eval_expr_body(expr, mu) ==
    IF expr.type = "Variable"
    THEN IF expr.name \in DOMAIN mu THEN mu[expr.name] ELSE EvaluationError
    ELSE IF expr.type \in {"IRI", "Literal", "BlankNode"} THEN substitute_term(expr, mu)
    ELSE IF expr.type = "BinaryOp" THEN eval_binary_op(expr, mu)
    ELSE IF expr.type = "BuiltInCall" THEN eval_builtin(expr, mu)
    ELSE EvaluationError

\* eval_binary_op for the operators OR, AND, EQ, NE, LT, LE, GT, GE, ADD, SUB
eval_binary_op(expr, mu) ==
    CHOOSE res \in
      {binary_op_result(expr.operator, left_val, right_val)
       : left_val \in {eval_expr(expr.left, mu)},
         right_val \in {eval_expr(expr.right, mu)}} : TRUE

\* eval_builtin for SUBSTR, STRLEN, BNODE, IF and BOUND; the arguments are evaluated
\* first, in order, and an exception of one of them goes through
eval_builtin(call, mu) ==
    CHOOSE res \in
      {IF \E i \in DOMAIN args : IsException(args[i])
       THEN first_exception(args)
       ELSE IF call.function_name = "BOUND"
       THEN IF Len(call.arguments) = 1 /\ call.arguments[1].type = "Variable"
            THEN BooleanLiteral(call.arguments[1].name \in DOMAIN mu)
            ELSE BooleanLiteral(FALSE)
       ELSE IF call.function_name = "STRLEN" THEN builtin_strlen(args)
       ELSE IF call.function_name = "SUBSTR" THEN builtin_substr(args)
       ELSE IF call.function_name = "BNODE" THEN builtin_bnode(args, mu)
       ELSE IF call.function_name = "IF"
       THEN IF Len(call.arguments) = 3
            THEN CHOOSE val \in
                   {IF IsException(cond) THEN cond
                    ELSE IF effective_boolean_value(cond)
                    THEN eval_expr(call.arguments[2], mu)
                    ELSE eval_expr(call.arguments[3], mu)
                    : cond \in {eval_expr(call.arguments[1], mu)}} : TRUE
            ELSE None
       ELSE EvaluationError
       : args \in {[i \in DOMAIN call.arguments |-> eval_expr(call.arguments[i], mu)]}}
      : TRUE

\* The expressions eval_expr is called with while eval_expr(expr, mu) runs, in
\* the order of the calls, expr itself first: what a tracer wrapped around
\* eval_expr records. An exception that eval_expr does not catch ends the run.
RECURSIVE eval_expr_calls(_, _), arguments_calls(_, _), eval_builtin_calls(_, _)

eval_expr_calls(expr, mu) ==
    <<expr>> \o
    (IF expr.type = "BinaryOp"
     THEN CHOOSE res \in
            {IF IsException(left_val) THEN left_calls
             ELSE IF expr.operator = "OR" /\ effective_boolean_value(left_val)
             THEN left_calls
             ELSE IF expr.operator = "AND" /\ ~effective_boolean_value(left_val)
             THEN left_calls
             ELSE left_calls \o eval_expr_calls(expr.right, mu)
             : left_val \in {eval_expr(expr.left, mu)},
               left_calls \in {eval_expr_calls(expr.left, mu)}} : TRUE
     ELSE IF expr.type = "BuiltInCall" THEN eval_builtin_calls(expr, mu)
     ELSE <<>>)

\* eval_builtin: `for arg_expr in call.arguments: eval_expr(arg_expr, ...)`
arguments_calls(arguments, mu) ==
    IF arguments = <<>> THEN <<>>
    ELSE eval_expr_calls(Head(arguments), mu) \o
         (IF IsException(eval_expr(Head(arguments), mu)) THEN <<>>
          ELSE arguments_calls(Tail(arguments), mu))

\* eval_builtin: the arguments, and for IF the condition and one branch again
eval_builtin_calls(call, mu) ==
    arguments_calls(call.arguments, mu) \o
    (IF \E i \in DOMAIN call.arguments : IsException(eval_expr(call.arguments[i], mu))
     THEN <<>>
     ELSE IF call.function_name = "IF" /\ Len(call.arguments) = 3
     THEN eval_expr_calls(call.arguments[1], mu) \o
          (IF effective_boolean_value(eval_expr(call.arguments[1], mu))
           THEN eval_expr_calls(call.arguments[2], mu)
           ELSE eval_expr_calls(call.arguments[3], mu))
     ELSE <<>>)

----------------------------------------------------------------------------
(* Well-formedness of rules (ast/nodes.py) *)

WellFormednessError == "WellFormednessError"

\* the names of the variables among subject, predicate and object
term_variables(triple) ==
    {t.name : t \in {u \in {triple.subject, triple.predicate, triple.object} :
                        u.type = "Variable"}}

RECURSIVE extract_variables_from_expression(_)
extract_variables_from_expression(expr) ==
    IF expr.type = "Variable" THEN {expr.name}
    ELSE IF expr.type = "BinaryOp"
    THEN extract_variables_from_expression(expr.left)
         \cup extract_variables_from_expression(expr.right)
    ELSE IF expr.type = "BuiltInCall"
    THEN UNION {extract_variables_from_expression(expr.arguments[i]) :
                   i \in DOMAIN expr.arguments}
    ELSE {}

\* validate_rule_well_formedness: the loop over the body elements, from a
\* position with the variables defined and assigned so far; it ends by
\* raising or with the variables the body defines
RECURSIVE validate_body(_, _, _)
validate_body(elements, defined_vars, assignment_vars) ==
    IF elements = <<>> THEN [raised |-> FALSE, defined_vars |-> defined_vars]
    ELSE LET element == Head(elements)
             Raised == [raised |-> TRUE, defined_vars |-> defined_vars]
         IN IF element.type = "TriplePattern"
            THEN IF term_variables(element) \cap assignment_vars # {} THEN Raised
                 ELSE validate_body(Tail(elements),
                                    defined_vars \cup term_variables(element),
                                    assignment_vars)
            ELSE IF element.type = "Assignment"
            THEN IF element.variable.name \in assignment_vars THEN Raised
                 ELSE IF extract_variables_from_expression(element.expression)
                            \ (defined_vars \cup assignment_vars) # {}
                 THEN Raised
                 ELSE validate_body(Tail(elements),
                                    defined_vars \cup {element.variable.name},
                                    assignment_vars \cup {element.variable.name})
            ELSE IF element.type = "ConditionExpression"
            THEN IF extract_variables_from_expression(element.expression)
                       \ defined_vars # {}
                 THEN Raised
                 ELSE validate_body(Tail(elements), defined_vars, assignment_vars)
            ELSE validate_body(Tail(elements), defined_vars, assignment_vars)

\* validate_rule_well_formedness: None, or the exception raised
validate_rule_well_formedness(rule) ==
    LET head_vars == UNION {term_variables(rule.head[k]) : k \in DOMAIN rule.head}
        body == validate_body(rule.body, {}, {})
    IN IF body.raised THEN WellFormednessError
       ELSE IF head_vars \ body.defined_vars # {} THEN WellFormednessError
       ELSE None

----------------------------------------------------------------------------
(* Rule-body evaluation (engine/rules.py) *)

eval_triple_pattern(pattern, omega, g) ==
    CHOOSE res \in {join(omega, matches) : matches \in {graphMatch(g, pattern)}} : TRUE

\* an exception on its way through the functions that return a list of
\* solution mappings
Raise(e) == <<("raise" :> e)>>
IsRaised(omega) == Len(omega) = 1 /\ "raise" \in DOMAIN omega[1]

eval_filter(filter_expr, omega) ==
    CHOOSE res \in
      {IF \E i \in DOMAIN values : IsException(values[i])
       THEN Raise(first_exception(values))
       ELSE Flatten([i \in 1..Len(omega) |->
               IF effective_boolean_value(values[i]) THEN <<omega[i]>> ELSE <<>>])
       : values \in {[i \in 1..Len(omega) |->
                        eval_expr(filter_expr.expression, omega[i])]}} : TRUE

extend(mu, var, v) ==
    [n \in (DOMAIN mu) \cup {var.name} |-> IF n = var.name THEN v ELSE mu[n]]

eval_assignment(assignment, omega) ==
    CHOOSE res \in
      {IF \E i \in DOMAIN values : IsException(values[i])
       THEN Raise(first_exception(values))
       ELSE Flatten([i \in 1..Len(omega) |->
               IF values[i] = None THEN <<>>
               ELSE IF assignment.variable.name \in DOMAIN omega[i] THEN <<>>
               ELSE <<extend(omega[i], assignment.variable, values[i])>>])
       : values \in {[i \in 1..Len(omega) |->
                        eval_expr(assignment.expression, omega[i])]}} : TRUE

RECURSIVE eval_body_element(_, _, _), eval_elements(_, _, _), eval_negation(_, _, _)

\* the loop `for element in ...: omega = eval_body_element(...); if not omega: break`
eval_elements(elements, omega, g) ==
    IF elements = <<>> THEN omega
    ELSE CHOOSE res \in
           {IF o = <<>> \/ IsRaised(o) THEN o
            ELSE eval_elements(Tail(elements), o, g)
            : o \in {eval_body_element(Head(elements), omega, g)}} : TRUE

eval_negation(negation, omega, g) ==
    CHOOSE res \in
      {IF \E i \in DOMAIN results : IsRaised(results[i])
       THEN results[CHOOSE i \in DOMAIN results :
                      IsRaised(results[i]) /\ \A j \in 1..(i - 1) : ~IsRaised(results[j])]
       ELSE minus(omega, Flatten(results))
       : results \in {[i \in 1..Len(omega) |->
                         eval_elements(negation.body_patterns, <<omega[i]>>, g)]}} : TRUE

eval_body_element(element, omega, g) ==
    IF element.type = "TriplePattern" THEN eval_triple_pattern(element, omega, g)
    ELSE IF element.type = "ConditionExpression" THEN eval_filter(element, omega)
    ELSE IF element.type = "NegationElement" THEN eval_negation(element, omega, g)
    ELSE IF element.type = "Assignment" THEN eval_assignment(element, omega)
    ELSE omega

eval_rule(rule, g) == eval_elements(rule.body, <<EmptyMapping>>, g)

\* RuleEngine._evaluate_single_rule, when eval_rule returns
evaluate_single_rule(rule, g) ==
    CHOOSE res \in
      {UNION { UNION { Range(substitute_triple_template(rule.head[k],
                                                        solution_mappings[i]))
                       : k \in 1..Len(rule.head) }
               : i \in 1..Len(solution_mappings) }
       : solution_mappings \in {eval_rule(rule, g)}} : TRUE

----------------------------------------------------------------------------
(* Stratification (engine/stratification.py) *)

extract_head_predicates(rule) ==
    {"*" : t \in {u \in Range(rule.head) : u.predicate.type = "Variable"}}
    \cup {t.predicate.value : t \in {u \in Range(rule.head) : u.predicate.type = "IRI"}}

process_pattern(pattern) ==
    IF pattern.type # "TriplePattern" THEN {}
    ELSE IF pattern.predicate.type = "Variable" THEN {"*"}
    ELSE IF pattern.predicate.type = "IRI" THEN {pattern.predicate.value}
    ELSE {}

extract_body_predicates(rule, negated) ==
    IF negated
    THEN UNION { UNION { process_pattern(np) : np \in Range(e.body_patterns) }
                 : e \in {x \in Range(rule.body) : x.type = "NegationElement"} }
    ELSE UNION { process_pattern(e)
                 : e \in {x \in Range(rule.body) : x.type = "TriplePattern"} }

predicates_overlap(preds1, preds2) ==
    IF "*" \in preds1 \/ "*" \in preds2 THEN TRUE
    ELSE (preds1 \cap preds2) # {}

compute_dependencies(rules) ==
    LET n == Len(rules)
    IN [i \in 0..(n - 1) |->
         [rule_index |-> i,
          stratum |-> -1,
          depends_on |->
             {j \in 0..(n - 1) : j # i /\
                predicates_overlap(extract_head_predicates(rules[j + 1]),
                                   extract_body_predicates(rules[i + 1], FALSE))},
          negatively_depends_on |->
             {j \in 0..(n - 1) : j # i /\
                predicates_overlap(extract_head_predicates(rules[j + 1]),
                                   extract_body_predicates(rules[i + 1], TRUE))}]]

\* does the cycle, closed by the edge from its last to its first node, use an
\* edge of neg_edges?
cycle_has_neg_edge(cycle, neg_edges) ==
    \E i \in 1..Len(cycle) :
        <<cycle[i], cycle[(i % Len(cycle)) + 1]>> \in neg_edges

\* path[path.index(neighbor):]
path_from(path, neighbor) ==
    LET cycle_start == CHOOSE i \in 1..Len(path) :
                          path[i] = neighbor /\ \A k \in 1..(i - 1) : path[k] # neighbor
    IN SubSeq(path, cycle_start, Len(path))

\* detect_negation_cycles.dfs; the result is the state array and whether
\* StratificationError was raised.  path already ends with node.
RECURSIVE dfs(_, _, _, _, _), dfs_positive(_, _, _, _, _, _), dfs_negative(_, _, _, _, _, _)

dfs_positive(deps, node, path, neg_edges, state, todo) ==
    IF todo = <<>> THEN [state |-> state, raised |-> FALSE]
    ELSE LET neighbor == Head(todo) IN
         IF state[neighbor] = 1
         THEN IF cycle_has_neg_edge(path_from(path, neighbor), neg_edges)
              THEN [state |-> state, raised |-> TRUE]
              ELSE dfs_positive(deps, node, path, neg_edges, state, Tail(todo))
         ELSE IF state[neighbor] = 0
         THEN LET r == dfs(deps, neighbor, path, neg_edges, state)
              IN IF r.raised THEN r
                 ELSE dfs_positive(deps, node, path, neg_edges, r.state, Tail(todo))
         ELSE dfs_positive(deps, node, path, neg_edges, state, Tail(todo))

dfs_negative(deps, node, path, neg_edges, state, todo) ==
    IF todo = <<>> THEN [state |-> state, raised |-> FALSE]
    ELSE LET neighbor == Head(todo)
             neg_edges_with_current == neg_edges \cup {<<node, neighbor>>}
         IN
         IF state[neighbor] = 1
         THEN [state |-> state, raised |-> TRUE]
         ELSE IF state[neighbor] = 0
         THEN LET r == dfs(deps, neighbor, path, neg_edges_with_current, state)
              IN IF r.raised THEN r
                 ELSE dfs_negative(deps, node, path, neg_edges, r.state, Tail(todo))
         ELSE dfs_negative(deps, node, path, neg_edges, state, Tail(todo))

dfs(deps, node, path, neg_edges, state) ==
    LET state1 == [state EXCEPT ![node] = 1]
        path1 == Append(path, node)
        r1 == dfs_positive(deps, node, path1, neg_edges, state1,
                           SortedSeq(deps[node].depends_on))
    IN IF r1.raised THEN r1
       ELSE LET r2 == dfs_negative(deps, node, path1, neg_edges, r1.state,
                                   SortedSeq(deps[node].negatively_depends_on))
            IN IF r2.raised THEN r2
               ELSE [state |-> [r2.state EXCEPT ![node] = 2], raised |-> FALSE]

\* the loop `for i in range(n): if state[i] == 0: dfs(i, [], set())`
RECURSIVE dfs_from_each(_, _, _)
dfs_from_each(deps, i, state) ==
    IF i \notin DOMAIN deps THEN FALSE
    ELSE IF state[i] # 0 THEN dfs_from_each(deps, i + 1, state)
    ELSE LET r == dfs(deps, i, <<>>, {}, state)
         IN IF r.raised THEN TRUE ELSE dfs_from_each(deps, i + 1, r.state)

\* TRUE iff detect_negation_cycles raises StratificationError
detect_negation_cycles(deps) ==
    dfs_from_each(deps, 0, [i \in DOMAIN deps |-> 0])

\* the stratum a rule must have according to one look at its dependencies
required_stratum(info, st) ==
    LET dep_strata == {st[dep] : dep \in info.depends_on \cup info.negatively_depends_on}
        max_dep_stratum == IF dep_strata = {} THEN -1 ELSE Max(-1, MaxOfSet(dep_strata))
    IN IF max_dep_stratum >= 0 THEN max_dep_stratum + 1 ELSE 0

\* one execution of the body of assign_strata's while loop: `for i in range(n)`
RECURSIVE relax_pass(_, _, _, _)
relax_pass(deps, st, i, chg) ==
    IF i \notin DOMAIN deps THEN [stratum |-> st, changed |-> chg]
    ELSE LET req == required_stratum(deps[i], st)
         IN IF req > st[i]
            THEN relax_pass(deps, [st EXCEPT ![i] = req], i + 1, TRUE)
            ELSE relax_pass(deps, st, i + 1, chg)

\* `strata[s].append(i)` for i in range(n)
group_by_stratum(st) ==
    LET max_stratum == IF DOMAIN st = {} THEN 0 ELSE MaxOfSet({st[i] : i \in DOMAIN st})
    IN [s \in 1..(max_stratum + 1) |-> SortedSeq({i \in DOMAIN st : st[i] = s - 1})]

\* get_rule_stratum: the stratum number of a rule, -1 if it is in no stratum
get_rule_stratum(rule_index, strat) ==
    LET found == {k \in 1..Len(strat) : rule_index \in Range(strat[k])}
    IN IF found = {} THEN -1
       ELSE (CHOOSE k \in found : \A m \in found : k <= m) - 1

----------------------------------------------------------------------------
(* Bounds *)

MaxIterations == 3   \* engines are built with max_iterations in 1..MaxIterations
MaxTriples == 2      \* input graphs have at most MaxTriples triples
MaxParents == 3      \* :parent-only input graphs have at most MaxParents triples
MaxCalls == 2        \* the caller calls evaluate at most MaxCalls times
MaxRules == 2        \* generated rule sets have at most MaxRules rules
MaxLiveTriples == 1  \* input graphs of the runs checked for termination
MaxOmega == 2        \* the two lists given to join or minus have at most
                     \* MaxOmega + 1 mappings together
MaxBody == 3         \* validated rule bodies have at most MaxBody elements
MaxCap == 4          \* the engines for dense graphs have max_iterations in 1..MaxCap
MaxMissing == 2      \* a dense graph lacks at most MaxMissing possible triples

----------------------------------------------------------------------------
(* Rule sets and input graphs *)

vx == Variable("x")
vy == Variable("y")
vz == Variable("z")

\* S2: transitive closure
RuleS2_1 == Rule(<<TripleTemplate(vx, IRI("ancestor"), vy)>>,
                 <<TriplePattern(vx, IRI("parent"), vy)>>)
RuleS2_2 == Rule(<<TripleTemplate(vx, IRI("ancestor"), vz)>>,
                 <<TriplePattern(vx, IRI("ancestor"), vy),
                   TriplePattern(vy, IRI("ancestor"), vz)>>)
TransitiveClosureRules == <<RuleS2_1, RuleS2_2>>

\* two rules that positively depend on each other
RuleMutual_1 == Rule(<<TripleTemplate(vx, IRI("q"), vy)>>,
                     <<TriplePattern(vx, IRI("p"), vy)>>)
RuleMutual_2 == Rule(<<TripleTemplate(vy, IRI("p"), vx)>>,
                     <<TriplePattern(vx, IRI("q"), vy)>>)
MutualRecursionRules == <<RuleMutual_1, RuleMutual_2>>

\* S5: R1 negates what R2 derives, R2 consumes what R1 derives
RuleS5_1 == Rule(<<TripleTemplate(vx, IRI("p"), vy)>>,
                 <<TriplePattern(vx, IRI("q"), vy),
                   NegationElement(<<TriplePattern(vx, IRI("r"), vy)>>)>>)
RuleS5_2 == Rule(<<TripleTemplate(vx, IRI("r"), vy)>>,
                 <<TriplePattern(vx, IRI("p"), vy)>>)
\* R1 with one more positive pattern, on the predicate R2 derives
RuleS5_1b == Rule(<<TripleTemplate(vx, IRI("p"), vy)>>,
                  <<TriplePattern(vx, IRI("q"), vy),
                    TriplePattern(vy, IRI("r"), vx),
                    NegationElement(<<TriplePattern(vx, IRI("r"), vy)>>)>>)

NegationCycleRuleSets ==
    {<<RuleS5_1, RuleS5_2>>, <<RuleS5_2, RuleS5_1>>,
     <<RuleS5_1b, RuleS5_2>>, <<RuleS5_2, RuleS5_1b>>}

\* two rules that read the same predicate and derive different ones, so that
\* neither depends on the other
RuleIndependent_1 == Rule(<<TripleTemplate(vx, IRI("q"), vy)>>,
                          <<TriplePattern(vx, IRI("p"), vy)>>)
RuleIndependent_2 == Rule(<<TripleTemplate(vy, IRI("r"), vx)>>,
                          <<TriplePattern(vx, IRI("p"), vy)>>)
IndependentRules == <<RuleIndependent_1, RuleIndependent_2>>

RuleSets ==
    {TransitiveClosureRules, MutualRecursionRules, IndependentRules}
    \cup NegationCycleRuleSets

Nodes == {"a", "b"}
Persons == {"a", "b", "c"}

\* the predicate IRIs a rule set mentions in heads and positive or negated bodies
PredicatesOf(rules) ==
    UNION { (extract_head_predicates(rules[i])
             \cup extract_body_predicates(rules[i], FALSE)
             \cup extract_body_predicates(rules[i], TRUE)) \ {"*"}
            : i \in 1..Len(rules) }

BoundedSubsets(S, k) == {g \in SUBSET S : Cardinality(g) <= k}

InputGraphs(rules) ==
    BoundedSubsets(Nodes \X PredicatesOf(rules) \X Nodes, MaxTriples)

ParentGraphs == BoundedSubsets(Persons \X {"parent"} \X Persons, MaxParents)

\* rules {?x hp ?y} WHERE {?x bp ?y [. NOT {?x np ?y}]} for the stratifier
HeadPredicateTerms == {IRI("p"), IRI("q"), Variable("v")}
BodyPredicateTerms == {IRI("p"), IRI("q"), IRI("r")}
GeneratedRules ==
    {Rule(<<TripleTemplate(vx, hp, vy)>>, <<TriplePattern(vx, bp, vy)>> \o neg) :
        hp \in HeadPredicateTerms, bp \in BodyPredicateTerms,
        neg \in {<<>>} \cup {<<NegationElement(<<TriplePattern(vx, np, vy)>>)>> :
                                np \in BodyPredicateTerms}}
GeneratedRuleSets == UNION {[1..n -> GeneratedRules] : n \in 0..MaxRules}

----------------------------------------------------------------------------
(* RuleEngine (engine/engine.py) *)

\* the variables of the engine and of its caller
engine_vars ==
    <<rule_set, max_iterations, strata, graph, result_graph, inplace,
      results_only, pc, ret_pc, dependencies, stratum, changed, pass,
      stratum_num, iteration, rule_pos, delta, broke, warned, cap_hit,
      outcome, returned, call_input, history, evals>>

\* the state after RuleEngine(rule_set, max_iterations), with the caller's graph
Constructed(rules, g, cap) ==
    /\ rule_set = rules
    /\ max_iterations = cap
    /\ strata = <<>>
    /\ graph = g
    /\ result_graph = {}
    /\ inplace = TRUE
    /\ results_only = FALSE
    /\ pc = "idle"
    /\ ret_pc = "idle"
    /\ dependencies = <<>>
    /\ stratum = <<>>
    /\ changed = FALSE
    /\ pass = 0
    /\ stratum_num = 0
    /\ iteration = 0
    /\ rule_pos = 0
    /\ delta = {}
    /\ broke = FALSE
    /\ warned = {}
    /\ cap_hit = {}
    /\ outcome = "none"
    /\ returned = {}
    /\ call_input = g
    /\ history = <<>>
    /\ evals = <<>>

\* no function is called beside the engine
NoFnCall == fn_call = [fn |-> "none"] /\ fn_result = <<>>

\* evaluate without the configuration check
config_conflict_mut(ip, ro) == FALSE

\* `if inplace and results_only: raise ValueError`
config_conflict(ip, ro) == ip /\ ro

\* evaluate always working on the caller's graph object
aliased_mut(ip) == TRUE

\* result_graph is the caller's graph object itself (`result_graph = graph`)
\* rather than a new Graph filled by `result_graph += graph`
aliased(ip) == ip

\* the triples of the graph the strata are evaluated on
Working == IF aliased(inplace) THEN graph ELSE result_graph

\* the graph replaced by delta instead of extended with it
add_delta_mut(g, d) == d

\* `for triple in delta: graph.add(triple)`
add_delta(g, d) == g \cup d

\* delta holding the new triples of the last rule only
collect_delta_mut(d, new_triples, g) == {t \in new_triples : t \notin g}

\* `if triple not in graph: delta.add(triple)` for the triples of one rule
collect_delta(d, new_triples, g) == d \cup {t \in new_triples : t \notin g}

\* `if iteration >= self.max_iterations` after the loop
cap_warning(it, cap) == it >= cap

\* results_only returning the whole result graph
graph_difference_mut(rg, g) == rg

\* `result_graph - graph`
graph_difference(rg, g) == rg \ g

\* what the caller observes of a call that has ended
CallRecord(ip, ro, out, value) ==
    [inplace |-> ip, results_only |-> ro, input |-> call_input, outcome |-> out,
     value |-> value, warned |-> warned, cap_hit |-> cap_hit]

\* RuleEngine.stratify() called by the user
Stratify ==
    /\ pc = "idle"
    /\ pc' = "compute_dependencies"
    /\ ret_pc' = "idle"
    /\ outcome' = "none"
    /\ UNCHANGED <<evals, fn_call, fn_result>>
    /\ UNCHANGED <<rule_set, max_iterations, strata, graph, result_graph, inplace,
                   results_only, dependencies, stratum, changed, pass, stratum_num,
                   iteration, rule_pos, delta, broke, warned, cap_hit, returned,
                   call_input, history>>

\* RuleEngine.evaluate(graph, inplace, results_only), up to `if not self.strata`
Evaluate(ip, ro) ==
    /\ pc = "idle"
    /\ Len(history) < MaxCalls
    /\ inplace' = ip
    /\ results_only' = ro
    /\ call_input' = graph
    /\ warned' = {}
    /\ cap_hit' = {}
    /\ IF config_conflict(ip, ro)
       THEN /\ outcome' = "ValueError"
            /\ history' = Append(history,
                   [inplace |-> ip, results_only |-> ro, input |-> graph,
                    outcome |-> "ValueError", value |-> {}, warned |-> {},
                    cap_hit |-> {}])
            /\ pc' = "idle"
            /\ ret_pc' = ret_pc
       ELSE /\ outcome' = "none"
            /\ history' = history
            /\ IF strata = <<>>
               THEN pc' = "compute_dependencies" /\ ret_pc' = "evaluate"
               ELSE pc' = "evaluate" /\ ret_pc' = ret_pc
    /\ evals' = <<>>
    /\ UNCHANGED <<fn_call, fn_result>>
    /\ UNCHANGED <<rule_set, max_iterations, strata, graph, result_graph,
                   dependencies, stratum, changed, pass, stratum_num, iteration,
                   rule_pos, delta, broke, returned>>

\* stratify_rules: `if n == 0: return []`, else compute_dependencies(rules)
ComputeDependencies ==
    /\ pc = "compute_dependencies"
    /\ IF Len(rule_set) = 0
       THEN /\ strata' = <<>>
            /\ pc' = ret_pc
            /\ dependencies' = dependencies
       ELSE /\ dependencies' = compute_dependencies(rule_set)
            /\ pc' = "detect_negation_cycles"
            /\ strata' = strata
    /\ UNCHANGED <<evals, fn_call, fn_result>>
    /\ UNCHANGED <<rule_set, max_iterations, graph, result_graph, inplace,
                   results_only, ret_pc, stratum, changed, pass, stratum_num,
                   iteration, rule_pos, delta, broke, warned, cap_hit, outcome,
                   returned, call_input, history>>

\* stratify_rules: detect_negation_cycles(dependencies); a StratificationError
\* propagates to the caller of stratify() or evaluate()
DetectNegationCycles ==
    /\ pc = "detect_negation_cycles"
    /\ IF detect_negation_cycles(dependencies)
       THEN /\ pc' = "idle"
            /\ outcome' = "StratificationError"
            /\ history' = IF ret_pc = "evaluate"
                          THEN Append(history,
                                 CallRecord(inplace, results_only, "StratificationError", {}))
                          ELSE history
            /\ UNCHANGED <<stratum, changed, pass>>
       ELSE /\ pc' = "assign_strata"
            /\ stratum' = [i \in DOMAIN dependencies |-> 0]
            /\ changed' = TRUE
            /\ pass' = 0
            /\ UNCHANGED <<outcome, history>>
    /\ UNCHANGED <<evals, fn_call, fn_result>>
    /\ UNCHANGED <<rule_set, max_iterations, strata, graph, result_graph, inplace,
                   results_only, ret_pc, dependencies, stratum_num, iteration,
                   rule_pos, delta, broke, warned, cap_hit, returned, call_input>>

\* assign_strata: one execution of the body of `while changed and iteration < max_iterations`
AssignPass ==
    /\ pc = "assign_strata"
    /\ changed /\ pass < Len(rule_set) + 1
    /\ LET r == relax_pass(dependencies, stratum, 0, FALSE)
       IN stratum' = r.stratum /\ changed' = r.changed
    /\ pass' = pass + 1
    /\ UNCHANGED <<evals, fn_call, fn_result>>
    /\ UNCHANGED <<rule_set, max_iterations, strata, graph, result_graph, inplace,
                   results_only, pc, ret_pc, dependencies, stratum_num, iteration,
                   rule_pos, delta, broke, warned, cap_hit, outcome, returned,
                   call_input, history>>

\* assign_strata: the loop has ended; group the rules and return the strata,
\* which stratify() stores in self.strata
GroupStrata ==
    /\ pc = "assign_strata"
    /\ ~(changed /\ pass < Len(rule_set) + 1)
    /\ strata' = group_by_stratum(stratum)
    /\ dependencies' = [i \in DOMAIN dependencies |->
                           [dependencies[i] EXCEPT !.stratum = stratum[i]]]
    /\ pc' = ret_pc
    /\ UNCHANGED <<evals, fn_call, fn_result>>
    /\ UNCHANGED <<rule_set, max_iterations, graph, result_graph, inplace,
                   results_only, ret_pc, stratum, changed, pass, stratum_num,
                   iteration, rule_pos, delta, broke, warned, cap_hit, outcome,
                   returned, call_input, history>>

\* the loop as `while True`, left only by the `break` of an empty delta
LoopHead_mut(it) ==
    /\ iteration' = it + 1
    /\ delta' = {}
    /\ rule_pos' = 0
    /\ broke' = FALSE
    /\ pc' = "rules"

\* _evaluate_stratum: the test of `while iteration < self.max_iterations`,
\* reached with iteration = it, and the first lines of the loop body
LoopHead(it) ==
    IF it < max_iterations
    THEN /\ iteration' = it + 1
         /\ delta' = {}
         /\ rule_pos' = 0
         /\ broke' = FALSE
         /\ pc' = "rules"
    ELSE /\ iteration' = it
         /\ delta' = delta
         /\ rule_pos' = rule_pos
         /\ broke' = FALSE
         /\ pc' = "after_loop"

\* evaluate: `for stratum_num, rule_indices in enumerate(self.strata)` at index k
EnterStratum(k) ==
    /\ stratum_num' = k
    /\ IF k < Len(strata)
       THEN LoopHead(0)
       ELSE /\ pc' = "return"
            /\ UNCHANGED <<iteration, delta, rule_pos, broke>>

\* evaluate: set up result_graph and start the first stratum
Prepare ==
    /\ pc = "evaluate"
    /\ result_graph' = IF aliased(inplace) THEN result_graph ELSE graph
    /\ EnterStratum(0)
    /\ UNCHANGED <<evals, fn_call, fn_result>>
    /\ UNCHANGED <<rule_set, max_iterations, strata, graph, inplace, results_only,
                   ret_pc, dependencies, stratum, changed, pass, warned, cap_hit,
                   outcome, returned, call_input, history>>

\* every stratum evaluating all the rules of the rule set
rule_indices_mut == [i \in 1..Len(rule_set) |-> i - 1]

\* _evaluate_stratum: the argument rule_indices, self.strata[stratum_num]
rule_indices == strata[stratum_num + 1]

\* what a tracer wrapped around _evaluate_single_rule records of one call:
\* the rule, the position of the driver, the graph read and the head
\* instances returned
EvalRecord(rule_idx, new_triples) ==
    [rule |-> rule_idx, stratum |-> stratum_num, iteration |-> iteration,
     read |-> Working, derived |-> new_triples]

\* one turn of the loop over the rules that adds the new triples of the rule
\* to the graph at once
EvalRule_mut ==
    /\ pc = "rules"
    /\ rule_pos < Len(rule_indices)
    /\ LET rule_idx == rule_indices[rule_pos + 1]
           rule == rule_set[rule_idx + 1]
       IN \E omega \in {eval_rule(rule, Working)} :
             IF IsRaised(omega)
             THEN /\ pc' = "idle"
                  /\ outcome' = omega[1]["raise"]
                  /\ history' = Append(history,
                         CallRecord(inplace, results_only, omega[1]["raise"], {}))
                  /\ UNCHANGED <<delta, evals, rule_pos, graph, result_graph>>
             ELSE \E new_triples \in {evaluate_single_rule(rule, Working)} :
                      /\ delta' = collect_delta(delta, new_triples, Working)
                      /\ evals' = Append(evals, EvalRecord(rule_idx, new_triples))
                      /\ IF aliased(inplace)
                         THEN /\ graph' = add_delta(graph, new_triples)
                              /\ result_graph' = result_graph
                         ELSE /\ result_graph' = add_delta(result_graph, new_triples)
                              /\ graph' = graph
                      /\ rule_pos' = rule_pos + 1
                      /\ UNCHANGED <<pc, outcome, history>>
    /\ UNCHANGED <<fn_call, fn_result>>
    /\ UNCHANGED <<rule_set, max_iterations, strata, inplace, results_only, ret_pc,
                   dependencies, stratum, changed, pass, stratum_num, iteration,
                   broke, warned, cap_hit, returned, call_input>>

\* _evaluate_stratum: one turn of `for rule_idx in rule_indices`; an
\* exception of eval_rule is caught nowhere and ends the call
EvalRule ==
    /\ pc = "rules"
    /\ rule_pos < Len(rule_indices)
    /\ LET rule_idx == rule_indices[rule_pos + 1]
           rule == rule_set[rule_idx + 1]
       IN \E omega \in {eval_rule(rule, Working)} :
             IF IsRaised(omega)
             THEN /\ pc' = "idle"
                  /\ outcome' = omega[1]["raise"]
                  /\ history' = Append(history,
                         CallRecord(inplace, results_only, omega[1]["raise"], {}))
                  /\ UNCHANGED <<delta, evals, rule_pos, graph, result_graph>>
             ELSE \E new_triples \in {evaluate_single_rule(rule, Working)} :
                      /\ delta' = collect_delta(delta, new_triples, Working)
                      /\ evals' = Append(evals, EvalRecord(rule_idx, new_triples))
                      /\ UNCHANGED <<graph, result_graph>>
                      /\ rule_pos' = rule_pos + 1
                      /\ UNCHANGED <<pc, outcome, history>>
    /\ UNCHANGED <<fn_call, fn_result>>
    /\ UNCHANGED <<rule_set, max_iterations, strata, inplace, results_only, ret_pc,
                   dependencies, stratum, changed, pass, stratum_num, iteration,
                   broke, warned, cap_hit, returned, call_input>>

\* the loop going on after a non-empty delta without adding it to the graph
CheckFixpoint_mut ==
    /\ pc = "rules"
    /\ rule_pos = Len(rule_indices)
    /\ IF delta = {}
       THEN /\ pc' = "after_loop"
            /\ broke' = TRUE
            /\ UNCHANGED <<graph, result_graph, iteration, delta, rule_pos>>
       ELSE /\ UNCHANGED <<graph, result_graph>>
            /\ LoopHead(iteration)
    /\ UNCHANGED <<evals, fn_call, fn_result>>
    /\ UNCHANGED <<rule_set, max_iterations, strata, inplace, results_only, ret_pc,
                   dependencies, stratum, changed, pass, stratum_num, warned,
                   cap_hit, outcome, returned, call_input, history>>

\* _evaluate_stratum: after the rules, `if len(delta) == 0: break`, else add
\* delta to the graph and test the loop condition again
CheckFixpoint ==
    /\ pc = "rules"
    /\ rule_pos = Len(rule_indices)
    /\ IF delta = {}
       THEN /\ pc' = "after_loop"
            /\ broke' = TRUE
            /\ UNCHANGED <<graph, result_graph, iteration, delta, rule_pos>>
       ELSE /\ IF aliased(inplace)
               THEN graph' = add_delta(graph, delta) /\ result_graph' = result_graph
               ELSE result_graph' = add_delta(result_graph, delta) /\ graph' = graph
            /\ LoopHead(iteration)
    /\ UNCHANGED <<evals, fn_call, fn_result>>
    /\ UNCHANGED <<rule_set, max_iterations, strata, inplace, results_only, ret_pc,
                   dependencies, stratum, changed, pass, stratum_num, warned,
                   cap_hit, outcome, returned, call_input, history>>

\* _evaluate_stratum: the warning after the loop; then the next stratum
AfterLoop ==
    /\ pc = "after_loop"
    /\ warned' = IF cap_warning(iteration, max_iterations)
                 THEN warned \cup {stratum_num} ELSE warned
    /\ cap_hit' = IF broke THEN cap_hit ELSE cap_hit \cup {stratum_num}
    /\ EnterStratum(stratum_num + 1)
    /\ UNCHANGED <<evals, fn_call, fn_result>>
    /\ UNCHANGED <<rule_set, max_iterations, strata, graph, result_graph, inplace,
                   results_only, ret_pc, dependencies, stratum, changed, pass,
                   outcome, returned, call_input, history>>

\* evaluate: `return result_graph - graph` or `return result_graph`
Return ==
    /\ pc = "return"
    /\ LET value == IF results_only THEN graph_difference(Working, graph) ELSE Working
       IN /\ returned' = value
          /\ history' = Append(history, CallRecord(inplace, results_only, "returned", value))
    /\ outcome' = "returned"
    /\ pc' = "idle"
    /\ UNCHANGED <<evals, fn_call, fn_result>>
    /\ UNCHANGED <<rule_set, max_iterations, strata, graph, result_graph, inplace,
                   results_only, ret_pc, dependencies, stratum, changed, pass,
                   stratum_num, iteration, rule_pos, delta, broke, warned, cap_hit,
                   call_input>>

----------------------------------------------------------------------------
(* Specifications *)

\* an engine for one of the catalogued rule sets and a small input graph
Init ==
    \E rules \in RuleSets, cap \in 1..MaxIterations :
        \E g \in InputGraphs(rules) : Constructed(rules, g, cap) /\ NoFnCall

Call == \E ip \in BOOLEAN, ro \in BOOLEAN : Evaluate(ip, ro)

Next ==
    \/ Call
    \/ ComputeDependencies
    \/ DetectNegationCycles
    \/ AssignPass
    \/ GroupStrata
    \/ Prepare
    \/ EvalRule
    \/ CheckFixpoint
    \/ AfterLoop
    \/ Return

Spec == Init /\ [][Next]_vars

----------------------------------------------------------------------------
(* The functions of solutions.py and rules.py called directly *)

MappingVariables == {"x", "y"}

\* the solution mappings over MappingVariables and Nodes
SolutionMappings == UNION {[D -> Nodes] : D \in SUBSET MappingVariables}

\* the lists of at most n solution mappings
OmegasUpTo(n) == UNION {[1..k -> SolutionMappings] : k \in 0..n}

JoinArguments ==
    UNION {{<<o1, o2>> : o1 \in [1..k -> SolutionMappings],
                         o2 \in OmegasUpTo(MaxOmega + 1 - k)} : k \in 0..MaxOmega}

JoinCalls == {[fn |-> "join", omega1 |-> a[1], omega2 |-> a[2]] : a \in JoinArguments}
MinusCalls == {[fn |-> "minus", omega1 |-> a[1], omega2 |-> a[2]] : a \in JoinArguments}

vp == Variable("p")
vu == Variable("u")
vv == Variable("v")

\* S6: persons without a :parent triple are orphans
RuleS6 == Rule(<<TripleTemplate(vx, IRI("type"), IRI("Orphan"))>>,
               <<TriplePattern(vx, IRI("type"), IRI("Person")),
                 NegationElement(<<TriplePattern(vx, IRI("parent"), vp)>>)>>)

\* the elements that precede a Negation in a body
NegationPrefixes ==
    {<<TriplePattern(vx, IRI("type"), IRI("Person"))>>,
     <<TriplePattern(vx, IRI("parent"), vy)>>,
     <<TriplePattern(vx, IRI("type"), IRI("Person")),
       TriplePattern(vy, IRI("type"), IRI("Person"))>>}

NegationElements ==
    {NegationElement(<<TriplePattern(vx, IRI("parent"), vp)>>),
     NegationElement(<<TriplePattern(vp, IRI("parent"), vx)>>),
     NegationElement(<<TriplePattern(vx, IRI("parent"), vx)>>),
     NegationElement(<<TriplePattern(vu, IRI("parent"), vv)>>),
     NegationElement(<<TriplePattern(vx, IRI("parent"), vp),
                       TriplePattern(vp, IRI("parent"), vx)>>),
     NegationElement(<<TriplePattern(vx, IRI("parent"), vp),
                       NegationElement(<<TriplePattern(vp, IRI("parent"), vx)>>)>>)}

\* graphs of :parent triples and Person memberships
PersonGraphs ==
    BoundedSubsets((Nodes \X {"parent"} \X Nodes) \cup (Nodes \X {"type"} \X {"Person"}),
                   MaxParents)

\* eval_negation as eval_rule calls it: on the list the preceding elements
\* of the body produced
NegationCalls ==
    {[fn |-> "eval_negation", negation |-> neg,
      omega |-> eval_elements(prefix, <<EmptyMapping>>, g), g |-> g] :
        neg \in NegationElements, prefix \in NegationPrefixes, g \in PersonGraphs}

va == Variable("a")

Integer(lexical) == Literal(lexical, "xsd:integer")
Plain(lexical) == Literal(lexical, None)

\* FILTER(?a >= 18)
AtLeast18 == ConditionExpression(BinaryOp("GE", va, Integer(<<"1", "8">>)))

\* S3: {?p :isAdult true} WHERE {?p :age ?a. FILTER(?a >= 18)}
RuleS3 == Rule(<<TripleTemplate(vp, IRI("isAdult"),
                                Literal(<<"t", "r", "u", "e">>, "xsd:boolean"))>>,
               <<TriplePattern(vp, IRI("age"), va), AtLeast18>>)

\* the objects of :age triples
AgeTerms ==
    {RDFLiteral(<<"1", "6">>, "xsd:integer", None),
     RDFLiteral(<<"1", "8">>, "xsd:integer", None),
     RDFLiteral(<<"2", "5">>, "xsd:integer", None),
     RDFLiteral(<<"2", "0">>, "xsd:long", None),
     RDFLiteral(<<"1", ".", "5">>, "xsd:decimal", None),
     RDFLiteral(<<"a", "b", "c">>, "xsd:integer", None),
     RDFLiteral(<<"9">>, None, None),
     "b"}

AgeGraphs == BoundedSubsets(Nodes \X {"age"} \X AgeTerms, MaxTriples)

SingleRuleCalls ==
    {[fn |-> "evaluate_single_rule", rule |-> RuleS6, g |-> g] : g \in PersonGraphs}
    \cup {[fn |-> "evaluate_single_rule", rule |-> RuleS3, g |-> g] : g \in AgeGraphs}

EBVCalls == {[fn |-> "effective_boolean_value", term |-> t] : t \in Terms \cup {None}}

\* expressions over ?x: comparisons, arithmetic, logical connectives, builtins
Expressions ==
    {vx,
     Integer(<<"1", "8">>),
     IRI("a"),
     BinaryOp("EQ", vx, Integer(<<"1", "8">>)),
     BinaryOp("NE", vx, Integer(<<"1", "8">>)),
     BinaryOp("LT", vx, Integer(<<"1", "8">>)),
     BinaryOp("LE", vx, Plain(<<"b">>)),
     BinaryOp("GT", vx, Literal(<<"1", ".", "5">>, "xsd:decimal")),
     BinaryOp("GE", vx, Integer(<<"1", "8">>)),
     BinaryOp("ADD", vx, Integer(<<"1">>)),
     BinaryOp("SUB", Literal(<<"1", ".", "5">>, "xsd:decimal"), vx),
     BinaryOp("OR", BinaryOp("EQ", vx, Integer(<<"1", "8">>)),
                    BinaryOp("GT", vx, Integer(<<"1", "8">>))),
     BinaryOp("AND", BuiltInCall("BOUND", <<vx>>),
                     BinaryOp("LT", vx, Integer(<<"1", "8">>))),
     BuiltInCall("BOUND", <<vx>>),
     BuiltInCall("STRLEN", <<vx>>),
     BuiltInCall("SUBSTR", <<vx, Integer(<<"2">>)>>),
     BuiltInCall("SUBSTR", <<Plain(<<"a", "b", "c">>), vx>>),
     BuiltInCall("SUBSTR", <<Plain(<<"a", "b", "c">>), Integer(<<"2">>), vx>>),
     BuiltInCall("UNKNOWN", <<vx>>)}

\* ?x unbound, or bound to a term
ExprMappings == {EmptyMapping} \cup {("x" :> t) : t \in Terms}

ExprCalls == {[fn |-> "eval_expr", expr |-> e, mu |-> mu] :
                 e \in Expressions, mu \in ExprMappings}

\* the mappings a body {?p :age ?a} produces, and one that leaves ?a unbound
AgeMappings ==
    {("p" :> n) @@ ("a" :> t) : n \in Nodes, t \in AgeTerms}
    \cup {("p" :> n) : n \in Nodes}

FilterCalls ==
    {[fn |-> "eval_filter", filter_expr |-> AtLeast18, omega |-> omega] :
        omega \in UNION {[1..k -> AgeMappings] : k \in 0..MaxOmega}}

\* the terms of the patterns and graphs graphMatch is called with: an IRI
\* can stand in every position of a triple
MatchIRIs == {"a", "p"}

MatchPatternTerms == {vx, vy} \cup {IRI(i) : i \in MatchIRIs}

MatchPatterns ==
    {TriplePattern(s, p, o) :
        s \in MatchPatternTerms, p \in MatchPatternTerms, o \in MatchPatternTerms}

MatchGraphs == BoundedSubsets(MatchIRIs \X MatchIRIs \X MatchIRIs, MaxTriples)

MatchCalls ==
    {[fn |-> "graphMatch", g |-> g, pattern |-> tp] :
        g \in MatchGraphs, tp \in MatchPatterns}

\* the body elements the validated rules are built from
ValidatedElements ==
    {TriplePattern(vx, IRI("p"), vy), TriplePattern(vy, IRI("p"), vz),
     Assignment(vz, vx), Assignment(vy, vx)}

\* the rules {?x :q ?x} WHERE body, for the bodies of at most MaxBody elements
ValidatedRules ==
    {Rule(<<TripleTemplate(vx, IRI("q"), vx)>>, body) :
        body \in UNION {[1..k -> ValidatedElements] : k \in 0..MaxBody}}

ValidateCalls ==
    {[fn |-> "validate_rule_well_formedness", rule |-> rule] : rule \in ValidatedRules}

\* the conditions and branches of the IF calls
IfConditions == {BuiltInCall("BOUND", <<vx>>), vx}

IfBranches ==
    {Integer(<<"1">>), BuiltInCall("STRLEN", <<vx>>),
     BuiltInCall("SUBSTR", <<Plain(<<"a", "b", "c">>), Plain(<<"a">>)>>)}

\* IF(cond, a, b) with two different branches
IfCalls ==
    {[fn |-> "eval_builtin", call |-> BuiltInCall("IF", <<cond, ab[1], ab[2]>>),
      mu |-> mu] :
        cond \in IfConditions,
        ab \in {pair \in IfBranches \X IfBranches : pair[1] # pair[2]},
        mu \in ExprMappings}

FnCalls ==
    JoinCalls \cup MinusCalls \cup NegationCalls \cup SingleRuleCalls
    \cup EBVCalls \cup ExprCalls \cup FilterCalls \cup MatchCalls
    \cup ValidateCalls \cup IfCalls

\* the function is called with its arguments; no engine is involved
InitFn ==
    \E c \in FnCalls :
        /\ Constructed(<<>>, {}, MaxIterations)
        /\ fn_call = c
        /\ fn_result = <<>>

\* the call returns v
Returns(name, v) ==
    /\ fn_call.fn = name
    /\ fn_result = <<>>
    /\ fn_result' = <<v>>
    /\ UNCHANGED <<engine_vars, fn_call>>

\* the call ends with the exception e reaching the caller
Raises(name, e) ==
    /\ fn_call.fn = name
    /\ fn_result = <<>>
    /\ fn_result' = <<"raised", e>>
    /\ UNCHANGED <<engine_vars, fn_call>>

Join ==
    /\ fn_call.fn = "join"
    /\ Returns("join", join(fn_call.omega1, fn_call.omega2))
Minus ==
    /\ fn_call.fn = "minus"
    /\ Returns("minus", minus(fn_call.omega1, fn_call.omega2))
EvalNegation ==
    /\ fn_call.fn = "eval_negation"
    /\ \E omega \in {eval_negation(fn_call.negation, fn_call.omega, fn_call.g)} :
          IF IsRaised(omega)
          THEN Raises("eval_negation", omega[1]["raise"])
          ELSE Returns("eval_negation", omega)
EvaluateSingleRule ==
    /\ fn_call.fn = "evaluate_single_rule"
    /\ \E omega \in {eval_rule(fn_call.rule, fn_call.g)} :
          IF IsRaised(omega)
          THEN Raises("evaluate_single_rule", omega[1]["raise"])
          ELSE Returns("evaluate_single_rule",
                       evaluate_single_rule(fn_call.rule, fn_call.g))
EffectiveBooleanValue ==
    /\ fn_call.fn = "effective_boolean_value"
    /\ Returns("effective_boolean_value", effective_boolean_value(fn_call.term))
EvalExpr ==
    /\ fn_call.fn = "eval_expr"
    /\ \E r \in {eval_expr(fn_call.expr, fn_call.mu)} :
          IF IsException(r) THEN Raises("eval_expr", r) ELSE Returns("eval_expr", r)
EvalFilter ==
    /\ fn_call.fn = "eval_filter"
    /\ \E omega \in {eval_filter(fn_call.filter_expr, fn_call.omega)} :
          IF IsRaised(omega)
          THEN Raises("eval_filter", omega[1]["raise"])
          ELSE Returns("eval_filter", omega)

GraphMatch ==
    /\ fn_call.fn = "graphMatch"
    /\ Returns("graphMatch", graphMatch(fn_call.g, fn_call.pattern))

ValidateRuleWellFormedness ==
    /\ fn_call.fn = "validate_rule_well_formedness"
    /\ \E r \in {validate_rule_well_formedness(fn_call.rule)} :
          IF r = WellFormednessError
          THEN Raises("validate_rule_well_formedness", r)
          ELSE Returns("validate_rule_well_formedness", r)

\* eval_builtin under a tracer of eval_expr: the value or exception, and the
\* expressions eval_expr was called with
EvalBuiltin ==
    /\ fn_call.fn = "eval_builtin"
    /\ Returns("eval_builtin",
               [result |-> eval_builtin(fn_call.call, fn_call.mu),
                evaluated |-> eval_builtin_calls(fn_call.call, fn_call.mu)])

NextFn ==
    \/ GraphMatch
    \/ EvalBuiltin
    \/ ValidateRuleWellFormedness
    \/ Join
    \/ Minus
    \/ EvalNegation
    \/ EvaluateSingleRule
    \/ EffectiveBooleanValue
    \/ EvalExpr
    \/ EvalFilter

SpecFn == InitFn /\ [][NextFn]_vars

----------------------------------------------------------------------------
(* The engine on rules with filters and assignments, and on ill-formed rules *)

\* {?x :q ?z} WHERE {?x :p ?y. BIND(?y AS ?z)}
RuleBind == Rule(<<TripleTemplate(vx, IRI("q"), vz)>>,
                 <<TriplePattern(vx, IRI("p"), vy), Assignment(vz, vy)>>)

\* a head variable that nothing in the body binds
RuleUnboundHead == Rule(<<TripleTemplate(vx, IRI("q"), vz)>>,
                        <<TriplePattern(vx, IRI("p"), vy)>>)

\* a filter on a variable that is bound only after it
RuleFilterFirst == Rule(<<TripleTemplate(vp, IRI("isAdult"),
                                         Literal(<<"t", "r", "u", "e">>, "xsd:boolean"))>>,
                        <<AtLeast18, TriplePattern(vp, IRI("age"), va)>>)

\* a variable assigned twice
RuleBindTwice == Rule(<<TripleTemplate(vx, IRI("q"), vz)>>,
                      <<TriplePattern(vx, IRI("p"), vy), Assignment(vz, vy),
                        Assignment(vz, vx)>>)

ExprRuleSets ==
    {<<RuleS3>>, <<RuleBind>>, <<RuleUnboundHead>>, <<RuleFilterFirst>>,
     <<RuleBindTwice>>, <<RuleIndependent_1, RuleUnboundHead>>}

ExprGraphs ==
    BoundedSubsets((Nodes \X {"age"} \X AgeTerms) \cup (Nodes \X {"p"} \X Nodes),
                   MaxLiveTriples)

InitExpr ==
    \E rules \in ExprRuleSets, g \in ExprGraphs :
        Constructed(rules, g, MaxIterations) /\ NoFnCall

SpecExpr == InitExpr /\ [][Next]_vars

\* the steps of a call that has started: the engine is single-threaded and
\* synchronous, so a started call keeps executing until it returns or raises
Run ==
    \/ ComputeDependencies
    \/ DetectNegationCycles
    \/ AssignPass
    \/ GroupStrata
    \/ Prepare
    \/ EvalRule
    \/ CheckFixpoint
    \/ AfterLoop
    \/ Return

\* an engine for one of the catalogued rule sets and an input graph of at
\* most MaxLiveTriples triples
InitLive ==
    \E rules \in RuleSets, cap \in 1..MaxIterations :
        \E g \in BoundedSubsets(Nodes \X PredicatesOf(rules) \X Nodes, MaxLiveTriples) :
            Constructed(rules, g, cap) /\ NoFnCall

\* that engine, whose started calls are executed to their end; the caller is
\* not obliged to call
SpecLive == InitLive /\ [][Next]_vars /\ WF_vars(Run)

\* the transitive-closure rule set on :parent-only graphs
InitTC ==
    \E cap \in 1..MaxIterations, g \in ParentGraphs :
        Constructed(TransitiveClosureRules, g, cap) /\ NoFnCall

SpecTC == InitTC /\ [][Next]_vars

\* the stratifier alone, on generated rule sets
InitStrat ==
    \E rules \in GeneratedRuleSets : Constructed(rules, {}, MaxIterations) /\ NoFnCall

NextStrat ==
    \/ Stratify
    \/ ComputeDependencies
    \/ DetectNegationCycles
    \/ AssignPass
    \/ GroupStrata

SpecStrat == InitStrat /\ [][NextStrat]_vars

----------------------------------------------------------------------------
(* Notions the properties are stated with *)

RECURSIVE TransitiveClosure(_)
TransitiveClosure(R) ==
    LET step == R \cup {<<e[1], f[2]>> : <<e, f>> \in {ef \in R \X R : ef[1][2] = ef[2][1]}}
    IN IF step = R THEN R ELSE TransitiveClosure(step)

could_match(hp, bp) == hp = bp \/ hp = "*" \/ bp = "*"

\* rule i (0-based) positively depends on rule j: a head predicate of j could
\* match the predicate of a positive body pattern of i
PositivelyDependsOn(rules, i, j) ==
    \E hp \in extract_head_predicates(rules[j + 1]),
       bp \in extract_body_predicates(rules[i + 1], FALSE) : could_match(hp, bp)

\* rule i negatively depends on rule j: a head predicate of j could match a
\* predicate inside a Negation element of i
NegativelyDependsOn(rules, i, j) ==
    \E hp \in extract_head_predicates(rules[j + 1]),
       bp \in extract_body_predicates(rules[i + 1], TRUE) : could_match(hp, bp)

RuleIndices(rules) == 0..(Len(rules) - 1)

\* the dependency graph has a cycle with at least one negative edge
HasNegativeCycle(rules) ==
    LET edges == {e \in RuleIndices(rules) \X RuleIndices(rules) :
                     PositivelyDependsOn(rules, e[1], e[2])
                     \/ NegativelyDependsOn(rules, e[1], e[2])}
        reach == TransitiveClosure(edges)
    IN \E i, j \in RuleIndices(rules) :
          /\ NegativelyDependsOn(rules, i, j)
          /\ (i = j \/ <<j, i>> \in reach)

\* the orderings of a list
Orderings(seq) ==
    {[i \in 1..Len(seq) |-> seq[f[i]]] : f \in Permutations(1..Len(seq))}

\* _evaluate_stratum: the delta that `for rule_idx in rule_indices` collects
\* when the rules are taken in the given order, the graph being g
RECURSIVE stratum_delta(_, _, _)
stratum_delta(order, g, d) ==
    IF order = <<>> THEN d
    ELSE CHOOSE res \in
           {stratum_delta(Tail(order), g, d2)
            : d2 \in {collect_delta(d, evaluate_single_rule(rule_set[Head(order) + 1], g),
                                    g)}} : TRUE

\* _evaluate_stratum: the graph at the end of the loop entered with graph g
\* after `it` iterations, the rules being taken in the given order
RECURSIVE stratum_result(_, _, _)
stratum_result(order, g, it) ==
    IF ~(it < max_iterations) THEN g
    ELSE CHOOSE res \in
           {IF d = {} THEN g ELSE stratum_result(order, add_delta(g, d), it + 1)
            : d \in {stratum_delta(order, g, {})}} : TRUE

\* the evaluations of the current call made in stratum k, iteration it
EvalsOf(k, it) == {e \in Range(evals) : e.stratum = k /\ e.iteration = it}

Calls == 1..Len(history)
Completed(k) == history[k].outcome = "returned"
Running == pc \in {"rules", "after_loop", "return"}

----------------------------------------------------------------------------
(* Properties *)

\* C1 Monotonicity: during evaluate no triple is ever removed from the
\* working graph or from the caller's graph, the working graph contains the
\* input graph in every state of the run, cap hit or not, and the graph
\* returned with results_only=False contains the input graph.
C1_Monotonicity ==
    [][ /\ graph \subseteq graph'
        /\ (Running /\ Running') => Working \subseteq Working'
        /\ Running' => call_input' \subseteq Working'
        /\ (outcome' = "returned" /\ ~results_only') => call_input' \subseteq returned'
      ]_vars

\* C1 witness: a run that added triples to a non-empty input and was stopped
\* by the cap in some stratum is about to return.
C1_Witness ==
    /\ pc = "return"
    /\ cap_hit # {}
    /\ call_input # {}
    /\ Working # call_input

\* C2 Idempotence: evaluating again the graph a completed evaluation
\* returned (no stratum of either run stopped by the cap) returns the same
\* set of triples.
C2_Idempotence ==
    \A i \in Calls, j \in Calls :
        ( /\ i < j
          /\ Completed(i) /\ Completed(j)
          /\ ~history[i].results_only /\ ~history[j].results_only
          /\ history[i].cap_hit = {} /\ history[j].cap_hit = {}
          /\ history[j].input = history[i].value )
        => history[j].value = history[i].value

\* C3 Negation soundness: detect_negation_cycles raises StratificationError
\* exactly when the rule dependency graph has a cycle with a negative edge
\* (cycles of length one included).
C3_NegationSoundness ==
    /\ outcome = "StratificationError" => HasNegativeCycle(rule_set)
    /\ pc = "assign_strata" => ~HasNegativeCycle(rule_set)

\* C4 Stratum ordering: once strata are assigned, for distinct rules r1, r2:
\* stratum(r1) <= stratum(r2) if r2 positively depends on r1, and
\* stratum(r1) < stratum(r2) if r2 negatively depends on r1.
C4_StratumOrdering ==
    strata # <<>> =>
        \A r1 \in RuleIndices(rule_set), r2 \in RuleIndices(rule_set) :
            r1 # r2 =>
                /\ PositivelyDependsOn(rule_set, r2, r1) =>
                      get_rule_stratum(r1, strata) <= get_rule_stratum(r2, strata)
                /\ NegativelyDependsOn(rule_set, r2, r1) =>
                      get_rule_stratum(r1, strata) < get_rule_stratum(r2, strata)

\* rules A, B in either order: a Negation of A has a predicate that is a head
\* predicate of B, and a positive pattern of B has a head predicate of A
IsNegationCyclePair(rules) ==
    /\ Len(rules) = 2
    /\ \E A \in 1..2, B \in 1..2 :
          /\ A # B
          /\ (extract_body_predicates(rules[A], TRUE)
                \cap extract_head_predicates(rules[B])) # {}
          /\ (extract_body_predicates(rules[B], FALSE)
                \cap extract_head_predicates(rules[A])) # {}

\* C5 Two-rule negation cycle: for such a pair of rules every call of evaluate
\* that passes the configuration check raises StratificationError, no stratum
\* is ever evaluated and the graph is never changed.
C5_TwoRuleNegationCycle ==
    IsNegationCyclePair(rule_set) =>
        /\ pc \notin {"evaluate", "rules", "after_loop", "return"}
        /\ strata = <<>>
        /\ graph = call_input
        /\ \A k \in Calls : history[k].outcome \in {"ValueError", "StratificationError"}

ParentPairs(g) == {<<t[1], t[3]>> : t \in {u \in g : u[2] = "parent"}}
AncestorPairs(g) == {<<t[1], t[3]>> : t \in {u \in g : u[2] = "ancestor"}}
OnlyParentTriples(g) == \A t \in g : t[2] = "parent"

\* C6 Transitive closure: for the rule set S2 and an input graph of :parent
\* triples only, when no stratum is stopped by the cap, the :ancestor triples
\* of the returned graph are exactly the transitive closure of :parent.
C6_TransitiveClosure ==
    \A k \in Calls :
        ( /\ Completed(k)
          /\ ~history[k].results_only
          /\ history[k].cap_hit = {}
          /\ OnlyParentTriples(history[k].input) )
        => AncestorPairs(history[k].value)
             = TransitiveClosure(ParentPairs(history[k].input))

\* C6 witness: such a call has returned for an input whose closure has pairs
\* that are not :parent pairs, so the recursive rule has derived something.
C6_Witness ==
    \E k \in Calls :
        /\ Completed(k)
        /\ ~history[k].results_only
        /\ history[k].cap_hit = {}
        /\ OnlyParentTriples(history[k].input)
        /\ TransitiveClosure(ParentPairs(history[k].input)) # ParentPairs(history[k].input)

\* C7 Configuration conflict: a call of evaluate with inplace and results_only
\* both true raises ValueError at once: no stratification is started and the
\* graph, the working graph and the cached strata are unchanged.
C7_ConfigConflict ==
    [][ (pc = "idle" /\ inplace' /\ results_only') =>
            /\ outcome' = "ValueError"
            /\ pc' = "idle"
            /\ graph' = graph
            /\ result_graph' = result_graph
            /\ strata' = strata
            /\ dependencies' = dependencies
      ]_vars

\* C7 witness: the conflicting call was rejected by an engine that holds
\* cached strata and a graph with inferred triples from an earlier call.
C7_Witness ==
    /\ outcome = "ValueError"
    /\ strata # <<>>
    /\ graph # {}
    /\ Len(history) >= 2

\* C8 Copy semantics: with inplace=False the caller's graph keeps exactly the
\* triples it had at the call, whatever the outcome; and the graph returned
\* has the triples that an inplace=True call on an equal input returns in the
\* input object.
C8_CopySemantics ==
    /\ ~inplace => graph = call_input
    /\ \A i \in Calls, j \in Calls :
          ( /\ Completed(i) /\ Completed(j)
            /\ ~history[i].inplace /\ history[j].inplace
            /\ ~history[i].results_only /\ ~history[j].results_only
            /\ history[i].input = history[j].input )
          => history[i].value = history[j].value

\* C8 witness: a copying call and an in-place call on equal inputs have both
\* returned, having inferred triples, with a stratum stopped by the cap.
C8_Witness ==
    \E i \in Calls, j \in Calls :
        /\ Completed(i) /\ Completed(j)
        /\ ~history[i].inplace /\ history[j].inplace
        /\ ~history[i].results_only /\ ~history[j].results_only
        /\ history[i].input = history[j].input
        /\ history[i].value # history[i].input
        /\ history[i].cap_hit # {}

\* C9 Results-only: evaluate(G, inplace=False, results_only=True) returns
\* exactly the triples of evaluate(G, inplace=False, results_only=False) that
\* are not in G: it is disjoint from G and its union with G is the full result.
C9_ResultsOnly ==
    \A i \in Calls, j \in Calls :
        ( /\ Completed(i) /\ Completed(j)
          /\ ~history[i].inplace /\ ~history[j].inplace
          /\ history[i].results_only /\ ~history[j].results_only
          /\ history[i].input = history[j].input )
        => /\ history[i].value = history[j].value \ history[i].input
           /\ history[i].value \cap history[i].input = {}
           /\ history[i].value \cup history[i].input = history[j].value

\* C9 witness: both calls have returned for a non-empty input from which
\* triples were inferred.
C9_Witness ==
    \E i \in Calls, j \in Calls :
        /\ Completed(i) /\ Completed(j)
        /\ ~history[i].inplace /\ ~history[j].inplace
        /\ history[i].results_only /\ ~history[j].results_only
        /\ history[i].input = history[j].input
        /\ history[i].input # {}
        /\ history[i].value # {}

\* C10 Iteration-cap warning: the strata for which the warning was emitted
\* are exactly the strata whose loop was stopped by the cap, that is, whose
\* last executed iteration had a non-empty delta.
C10_CapWarning == warned = cap_hit

\* C11 Bounded termination: a call of evaluate whose rule set stratified
\* returns (it does not raise, stopped by the cap or not); no stratum runs
\* more than max_iterations iterations; the strata are entered one after the
\* other in ascending order and all of them have been left at the return.
C11_BoundedTermination ==
    /\ [](Running => iteration <= max_iterations)
    /\ [][ /\ (Running /\ Running') => stratum_num' \in {stratum_num, stratum_num + 1}
           /\ (pc = "evaluate" /\ pc' # "evaluate") => (Running' /\ stratum_num' = 0)
           /\ pc' = "return" => stratum_num' = Len(strata')
         ]_vars
    /\ (pc = "evaluate") ~> (pc = "idle" /\ outcome = "returned")

\* C11 witness: a call has returned although the cap stopped stratum 0; the
\* driver went on to a later stratum and the graph returned has new triples.
C11_Witness ==
    /\ pc = "idle"
    /\ outcome = "returned"
    /\ 0 \in cap_hit
    /\ Len(strata) >= 2
    /\ \E e \in Range(evals) : e.stratum >= 1
    /\ returned # call_input

\* C12 Rule-order independence within a stratum: in every iteration the
\* driver's delta is the one of its rule list, and every ordering of that
\* list gives the same graph after the iteration and the same graph when the
\* stratum completes; the graph the driver leaves the stratum with is that
\* graph.
C12_RuleOrderIndependence ==
    /\ (pc = "rules" /\ rule_pos = Len(rule_indices)) =>
          delta = stratum_delta(rule_indices, Working, {})
    /\ pc = "rules" =>
          \A o1 \in Orderings(rule_indices), o2 \in Orderings(rule_indices) :
             /\ add_delta(Working, stratum_delta(o1, Working, {}))
                  = add_delta(Working, stratum_delta(o2, Working, {}))
             /\ stratum_result(o1, Working, iteration - 1)
                  = stratum_result(o2, Working, iteration - 1)
    /\ pc = "after_loop" =>
          \A e \in EvalsOf(stratum_num, 1) :
             \A o \in Orderings(rule_indices) :
                Working = stratum_result(o, e.read, 0)

\* C12 witness: all the rules of a stratum of two rules have been evaluated
\* in an iteration, and each of them derived a new triple the other did not.
C12_Witness ==
    /\ pc = "rules"
    /\ rule_pos = Len(rule_indices)
    /\ \E e1 \in EvalsOf(stratum_num, iteration), e2 \in EvalsOf(stratum_num, iteration) :
          /\ e1.rule # e2.rule
          /\ (e1.derived \ e2.derived) \cap delta # {}
          /\ (e2.derived \ e1.derived) \cap delta # {}

\* the triples derived, before evaluation n of the current call, by rules
\* that self.strata places in a stratum <= k
DerivedUpTo(n, k) ==
    UNION {evals[i].derived :
             i \in {j \in 1..(n - 1) : get_rule_stratum(evals[j].rule, strata) <= k}}

\* C13 Stratum correctness: every rule evaluation of a call is made while
\* the driver is in the stratum of that rule; no rule of a later stratum was
\* evaluated before it, and the graph it reads has only triples of the input
\* and triples derived by rules of its own or earlier strata. The driver
\* enters the strata one by one in ascending order and returns after the last.
C13_StratumCorrectness ==
    /\ \A n \in DOMAIN evals :
          /\ get_rule_stratum(evals[n].rule, strata) = evals[n].stratum
          /\ \A m \in 1..(n - 1) :
                /\ get_rule_stratum(evals[m].rule, strata) <= evals[n].stratum
                /\ evals[m].stratum <= evals[n].stratum
          /\ evals[n].read \subseteq call_input \cup DerivedUpTo(n, evals[n].stratum)
    /\ Running => \A e \in Range(evals) : e.stratum <= stratum_num
    /\ pc = "return" => stratum_num = Len(strata)

\* C13 witness: a rule of stratum 1 is being evaluated on a graph that holds
\* a triple derived in stratum 0.
C13_Witness ==
    /\ pc = "rules"
    /\ stratum_num >= 1
    /\ \E n \in DOMAIN evals :
          /\ evals[n].stratum >= 1
          /\ evals[n].read # call_input
          /\ evals[n].derived # {}

\* C19 Batched writes: while the rules of an iteration are being evaluated
\* neither the working graph nor the caller's graph changes; all the rule
\* evaluations of one iteration read the same graph; and the working graph
\* changes only in the step after the last rule of the iteration, by the
\* triples of delta.
C19_BatchedWrites ==
    [][ /\ (pc = "rules" /\ rule_pos < Len(rule_indices)) =>
              (Working' = Working /\ graph' = graph)
        /\ \A e1 \in Range(evals'), e2 \in Range(evals') :
              (e1.stratum = e2.stratum /\ e1.iteration = e2.iteration) => e1.read = e2.read
        /\ (Running /\ Running' /\ Working' # Working) =>
              /\ pc = "rules"
              /\ rule_pos = Len(rule_indices)
              /\ Working' = Working \cup delta
      ]_vars

\* C19 witness: the second rule of an iteration has been evaluated after the
\* first rule derived a new triple, which is in delta and not in the graph.
C19_Witness ==
    /\ pc = "rules"
    /\ rule_pos >= 2
    /\ \E e \in EvalsOf(stratum_num, iteration) :
          /\ e.rule = rule_indices[1]
          /\ e.derived \cap delta # {}
          /\ (e.derived \cap delta) \cap Working = {}

Returned(name) == fn_call.fn = name /\ Len(fn_result) = 1
Raised(name) == fn_call.fn = name /\ Len(fn_result) = 2

\* C14 Solution-mapping algebra identities: join with the empty list is the
\* empty list, on either side; join with the list of the one empty mapping
\* is the other list, with its multiplicities and order, on either side;
\* minus of the empty list changes nothing; minus of the list of the one
\* empty mapping leaves nothing.
C14_AlgebraIdentities ==
    /\ Returned("join") =>
          /\ fn_call.omega2 = <<>> => fn_result[1] = <<>>
          /\ fn_call.omega1 = <<>> => fn_result[1] = <<>>
          /\ fn_call.omega2 = <<EmptyMapping>> => fn_result[1] = fn_call.omega1
          /\ fn_call.omega1 = <<EmptyMapping>> => fn_result[1] = fn_call.omega2
    /\ Returned("minus") =>
          /\ fn_call.omega2 = <<>> => fn_result[1] = fn_call.omega1
          /\ fn_call.omega2 = <<EmptyMapping>> => fn_result[1] = <<>>

\* C14 witness: join has returned for a list that holds a mapping twice and
\* another one, and the list of the one empty mapping.
C14_Witness ==
    /\ Returned("join")
    /\ fn_call.omega2 = <<EmptyMapping>>
    /\ Len(fn_call.omega1) = MaxOmega
    /\ \E i, j \in DOMAIN fn_call.omega1 :
          i # j /\ fn_call.omega1[i] = fn_call.omega1[j] /\ DOMAIN fn_call.omega1[i] # {}

\* the mappings of omega whose seeded sub-body has no solution
SeededKeep(negation, omega, g) ==
    LET keep(mu) == eval_elements(negation.body_patterns, <<mu>>, g) = <<>>
    IN SelectSeq(omega, keep)

Orphans(g) ==
    {<<x, "type", "Orphan">> :
        x \in {n \in Nodes : <<n, "type", "Person">> \in g
                              /\ ~\E t \in g : t[1] = n /\ t[2] = "parent"}}

\* C20 Seeded negation: eval_negation keeps, in order, exactly the mappings
\* of its list whose sub-body, evaluated from that mapping alone, has no
\* solution; so the S6 rule derives as orphans exactly the persons without a
\* :parent triple.
C20_SeededNegation ==
    /\ Returned("eval_negation") =>
          fn_result[1] = SeededKeep(fn_call.negation, fn_call.omega, fn_call.g)
    /\ Returned("evaluate_single_rule") /\ fn_call.rule = RuleS6 =>
          fn_result[1] = Orphans(fn_call.g)

\* C20 witness: eval_negation has returned for a list of two mappings of
\* which the seed of one has inner solutions and the seed of the other none.
C20_Witness ==
    /\ Returned("eval_negation")
    /\ Len(fn_call.omega) >= 2
    /\ Len(fn_result[1]) >= 1
    /\ Len(fn_result[1]) < Len(fn_call.omega)

\* the effective boolean value of the rule language: the value of a boolean,
\* non-zero and not NaN for every numeric literal, non-empty for strings and
\* plain literals, false for everything else
ExpectedEBV(term) ==
    IF term = None \/ ~IsLiteral(term) THEN FALSE
    ELSE IF datatype(term) = "xsd:boolean" THEN term_value(term).n = 1
    ELSE IF is_numeric(term)
    THEN term_value(term).kind \in {"int", "float"} /\ term_value(term).n # 0
    ELSE IF datatype(term) \in {"xsd:string", None} THEN str(term) # <<>>
    ELSE FALSE

\* C15 Effective boolean value: effective_boolean_value returns the value of
\* an xsd:boolean literal, false iff zero or NaN for a literal of every
\* datatype is_numeric accepts, false iff empty for xsd:string and plain
\* literals, and false for the absent value, IRIs, blank nodes and every
\* other datatype.
C15_EffectiveBooleanValue ==
    Returned("effective_boolean_value") => fn_result[1] = ExpectedEBV(fn_call.term)

\* C18 Expression errors never abort: eval_expr returns a term or the absent
\* value and never raises, builtins on ill-typed arguments and arithmetic or
\* comparison on an ill-formed numeric literal included; so neither a filter
\* nor the evaluation of a rule is ended by an exception of an expression.
C18_ExpressionErrorsNeverAbort ==
    /\ ~Raised("eval_expr")
    /\ ~Raised("eval_filter")
    /\ ~Raised("evaluate_single_rule")

\* the mappings of omega, in order, for which the expression of the filter
\* has a true effective boolean value
KeptByFilter(filter_expr, omega) ==
    SelectSeq(omega, LAMBDA mu :
        effective_boolean_value(eval_expr(filter_expr.expression, mu)))

\* a numeric literal with a value of at least 18
NumericallyAtLeast18(term) ==
    /\ IsLiteral(term)
    /\ is_numeric(term)
    /\ term_value(term).kind \in {"int", "float"}
    /\ term_value(term).n >= 10 * 18

\* the head triples of S3 for the subjects of g with such an age
Adults(g) ==
    {<<t[1], "isAdult", BooleanLiteral(TRUE)>> :
        t \in {u \in g : u[2] = "age" /\ NumericallyAtLeast18(u[3])}}

\* C16 Filter semantics: eval_filter returns exactly the mappings of its list,
\* in order and unaltered, for which the effective boolean value of the
\* expression is true (an absent value drops the mapping); hence rule S3
\* derives :isAdult for exactly the subjects whose age is numerically at
\* least 18.
C16_FilterSemantics ==
    /\ fn_call.fn = "eval_filter" /\ fn_result # <<>> =>
          /\ Returned("eval_filter")
          /\ fn_result[1] = KeptByFilter(fn_call.filter_expr, fn_call.omega)
    /\ fn_call.fn = "evaluate_single_rule" /\ fn_call.rule = RuleS3 /\ fn_result # <<>> =>
          /\ Returned("evaluate_single_rule")
          /\ fn_result[1] = Adults(fn_call.g)

\* the rule set of the engine has a rule that validate_rule_well_formedness
\* rejects
IllFormed(rules) ==
    \E i \in DOMAIN rules : validate_rule_well_formedness(rules[i]) = WellFormednessError

\* C17 Validation before evaluation: evaluate on a rule set with an
\* ill-formed rule raises WellFormednessError before any rule is applied and
\* leaves the graph unchanged.
C17_ValidationBeforeEvaluation ==
    IllFormed(rule_set) =>
        /\ evals = <<>>
        /\ \A k \in Calls :
              ~config_conflict(history[k].inplace, history[k].results_only) =>
                  /\ history[k].outcome = WellFormednessError
                  /\ graph = history[k].input

\* C21 Stratum assignment convergence: for a rule set that passes the
\* negation-cycle detection, the relaxation loop of assign_strata has a pass
\* without change among its first |R| passes, so the loop is never left with
\* the strata still changing (no stratification is returned unconverged).
C21_AssignStrataConverges ==
    pc = "assign_strata" /\ pass >= Len(rule_set) => ~changed


----------------------------------------------------------------------------
(* The engine on rules that create blank nodes *)

vb == Variable("b")

\* {?x :q ?b} WHERE {?x :p ?y. BIND(BNODE() AS ?b)}
RuleBindBNode == Rule(<<TripleTemplate(vx, IRI("q"), vb)>>,
                      <<TriplePattern(vx, IRI("p"), vy),
                        Assignment(vb, BuiltInCall("BNODE", <<>>))>>)

\* {?x :q []} WHERE {?x :p ?y}, the blank node of the head without a label
RuleBlankHead == Rule(<<TripleTemplate(vx, IRI("q"), BlankNode(""))>>,
                      <<TriplePattern(vx, IRI("p"), vy)>>)

\* {?x :q _:b} WHERE {?x :p ?y}
RuleLabelledHead == Rule(<<TripleTemplate(vx, IRI("q"), BlankNode("b"))>>,
                         <<TriplePattern(vx, IRI("p"), vy)>>)

BNodeRuleSets == {<<RuleBindBNode>>, <<RuleBlankHead>>, <<RuleLabelledHead>>}

\* an engine for one of these rules, with the largest iteration cap, and a
\* graph of :p triples
InitBNode ==
    \E rules \in BNodeRuleSets :
        \E g \in BoundedSubsets(Nodes \X {"p"} \X Nodes, MaxTriples) :
            Constructed(rules, g, MaxIterations) /\ NoFnCall

SpecBNode == InitBNode /\ [][Next]_vars

\* C22 Deterministic blank-node freshness: a rule that creates a blank node
\* and emits it in its head derives, from unchanged solutions, the same triples
\* in every iteration, so every returned call left each stratum by its
\* fixpoint test and none by the iteration cap.
C22_BlankNodesReachFixpoint ==
    \A k \in DOMAIN history :
        history[k].outcome = "returned" => history[k].cap_hit = {}


----------------------------------------------------------------------------
(* graphMatch against its definition *)

\* the variables of a triple pattern
pattern_variables(tp) ==
    {term.name : term \in {t \in {tp.subject, tp.predicate, tp.object}
                             : t.type = "Variable"}}

\* the terms occurring in a graph
TermsOf(g) == UNION {{t[1], t[2], t[3]} : t \in g}

\* mu applied to a term of a pattern whose variables mu binds
Instance(term, mu) == IF term.type = "Variable" THEN mu[term.name] ELSE term.value

\* the solution mappings over exactly the variables of tp whose instance of
\* tp is a triple of g
Matches(g, tp) ==
    {mu \in [pattern_variables(tp) -> TermsOf(g)] :
        <<Instance(tp.subject, mu), Instance(tp.predicate, mu),
          Instance(tp.object, mu)>> \in g}

\* C23 graphMatch soundness and completeness: graphMatch(G, tp) returns
\* exactly the solution mappings mu with dom(mu) the variables of tp and
\* mu(tp) a triple of G; a pattern with a repeated variable matches only
\* triples whose terms at the repeated positions are equal.
C23_GraphMatchExact ==
    Returned("graphMatch") =>
        Range(fn_result[1]) = Matches(fn_call.g, fn_call.pattern)


----------------------------------------------------------------------------
(* The validation of Bind targets *)

\* the variable of the assignment at position i of the body is bound by an
\* earlier element: a triple pattern in which it occurs, or an assignment to it
BindTargetAlreadyBound(body, i) ==
    /\ body[i].type = "Assignment"
    /\ \E j \in 1..(i - 1) :
          \/ /\ body[j].type = "TriplePattern"
             /\ body[i].variable.name \in term_variables(body[j])
          \/ /\ body[j].type = "Assignment"
             /\ body[j].variable = body[i].variable

\* C24 Bind-target validation: validate_rule_well_formedness raises
\* WellFormednessError for every body in which the target of a Bind is already
\* bound by an earlier triple pattern or an earlier Bind (two Binds with the
\* same target included).
C24_BindTargetValidated ==
    /\ fn_call.fn = "validate_rule_well_formedness"
    /\ fn_result # <<>>
    /\ \E i \in DOMAIN fn_call.rule.body : BindTargetAlreadyBound(fn_call.rule.body, i)
    => fn_result = <<"raised", WellFormednessError>>


----------------------------------------------------------------------------
(* Ordering comparisons of terms that have no order *)

\* a literal that is a plain or xsd:string literal without a language tag
is_string_literal(term) ==
    /\ IsLiteral(term)
    /\ datatype(term) \in {None, "xsd:string"}
    /\ LiteralTable[term].language = None

\* the pairs the ordering is not defined on: a term that is no literal on one
\* side, or a numeric literal against a string literal
Unordered(term1, term2) ==
    \/ ~IsLiteral(term1)
    \/ ~IsLiteral(term2)
    \/ is_numeric(term1) /\ is_string_literal(term2)
    \/ is_string_literal(term1) /\ is_numeric(term2)

\* C25 Unordered comparison is an error: an expression ?x op c, with op one
\* of <, <=, >, >=, ?x bound and c a constant, evaluates to the absent value
\* when the term of ?x and c are neither both numeric nor both string
\* literals (an IRI or blank node against a literal, a numeric literal against
\* a string literal).
C25_UnorderedComparisonIsError ==
    /\ fn_call.fn = "eval_expr"
    /\ fn_result # <<>>
    /\ fn_call.expr.type = "BinaryOp"
    /\ fn_call.expr.operator \in {"LT", "LE", "GT", "GE"}
    /\ fn_call.expr.left = vx
    /\ "x" \in DOMAIN fn_call.mu
    /\ Unordered(fn_call.mu["x"], substitute_term(fn_call.expr.right, fn_call.mu))
    => fn_result = <<None>>


----------------------------------------------------------------------------
(* evaluate_with_provenance (engine/engine.py) *)

\* provenance entries recorded for every derived triple, old or new
recorded_mut(new_triples, g) == new_triples

\* `if triple not in graph:` around delta.add and delta_provenance.append
recorded(new_triples, g) == {t \in new_triples : t \notin g}

\* the entries one rule appends to delta_provenance; the order in which the
\* set of new triples is iterated is not specified, one order is modelled
rule_provenance(rule_idx, g, sn) ==
    CHOOSE res \in
      {[i \in DOMAIN ts |-> <<ts[i], rule_idx, sn>>]
       : ts \in {SetToSeq(recorded(evaluate_single_rule(rule_set[rule_idx + 1], g), g))}}
      : TRUE

\* delta_provenance after `for rule_idx in rule_indices`
delta_provenance(indices, g, sn) ==
    Flatten([i \in DOMAIN indices |-> rule_provenance(indices[i], g, sn)])

\* the while loop of one stratum, entered with iteration = it; the rule sets
\* it is applied to have no expressions, so no rule evaluation raises
RECURSIVE provenance_stratum(_, _, _, _, _)
provenance_stratum(g, indices, sn, it, provenance) ==
    IF ~(it < max_iterations)
    THEN [graph |-> g, provenance |-> provenance, iteration |-> it]
    ELSE CHOOSE res \in
           {IF collect_delta({}, {dp[i][1] : i \in DOMAIN dp}, g) = {}
            THEN [graph |-> g, provenance |-> provenance, iteration |-> it + 1]
            ELSE provenance_stratum(add_delta(g, {dp[i][1] : i \in DOMAIN dp}),
                                    indices, sn, it + 1, provenance \o dp)
            : dp \in {delta_provenance(indices, g, sn)}} : TRUE

\* `for stratum_num, rule_indices in enumerate(self.strata)` from stratum sn on
RECURSIVE provenance_strata(_, _, _, _)
provenance_strata(g, sn, provenance, warnings) ==
    IF sn >= Len(strata)
    THEN [graph |-> g, provenance |-> provenance, warned |-> warnings]
    ELSE CHOOSE res \in
           {provenance_strata(r.graph, sn + 1, r.provenance,
                              IF cap_warning(r.iteration, max_iterations)
                              THEN warnings \cup {sn} ELSE warnings)
            : r \in {provenance_stratum(g, strata[sn + 1], sn, 0, provenance)}} : TRUE

\* evaluate_with_provenance(graph, inplace) is called: stratify first when
\* there is no cached stratification
EvaluateWithProvenance(ip) ==
    /\ pc = "idle"
    /\ fn_call.fn = "none"
    /\ fn_call' = [fn |-> "evaluate_with_provenance", g |-> graph, inplace |-> ip]
    /\ outcome' = "none"
    /\ IF strata = <<>>
       THEN pc' = "compute_dependencies" /\ ret_pc' = "provenance"
       ELSE pc' = "provenance" /\ ret_pc' = ret_pc
    /\ UNCHANGED <<rule_set, max_iterations, strata, graph, result_graph, inplace,
                   results_only, dependencies, stratum, changed, pass, stratum_num,
                   iteration, rule_pos, delta, broke, warned, cap_hit, returned,
                   call_input, history, evals, fn_result>>

\* evaluate_with_provenance from the copy of the graph to its return; with
\* inplace the triples are added to the caller's graph
EvaluateStrataWithProvenance ==
    /\ pc = "provenance"
    /\ \E r \in {provenance_strata(graph, 0, <<>>, {})} :
          /\ fn_result' = <<[graph |-> r.graph, provenance |-> r.provenance,
                             warned |-> r.warned]>>
          /\ graph' = IF fn_call.inplace THEN r.graph ELSE graph
    /\ outcome' = "returned"
    /\ pc' = "idle"
    /\ UNCHANGED <<rule_set, max_iterations, strata, result_graph, inplace,
                   results_only, ret_pc, dependencies, stratum, changed, pass,
                   stratum_num, iteration, rule_pos, delta, broke, warned, cap_hit,
                   returned, call_input, history, evals, fn_call>>

CallWithProvenance == \E ip \in BOOLEAN : EvaluateWithProvenance(ip)

NextProv ==
    \/ Call
    \/ CallWithProvenance
    \/ ComputeDependencies
    \/ DetectNegationCycles
    \/ AssignPass
    \/ GroupStrata
    \/ Prepare
    \/ EvalRule
    \/ CheckFixpoint
    \/ AfterLoop
    \/ EvaluateStrataWithProvenance
    \/ Return

\* an engine with the largest iteration cap, for a catalogued rule set and a
\* small graph or for the transitive closure and a :parent-only graph
InitProv ==
    \/ \E rules \in RuleSets :
          \E g \in InputGraphs(rules) : Constructed(rules, g, MaxIterations) /\ NoFnCall
    \/ \E g \in ParentGraphs :
          Constructed(TransitiveClosureRules, g, MaxIterations) /\ NoFnCall

\* these engines, whose caller may also call evaluate_with_provenance, once
SpecProv == InitProv /\ [][NextProv]_vars

\* evaluate_with_provenance has returned
ProvenanceReturned == fn_call.fn = "evaluate_with_provenance" /\ fn_result # <<>>

\* the triples occurring in a provenance list
ProvenanceTriples(provenance) == {provenance[i][1] : i \in DOMAIN provenance}

\* the last call of evaluate ran to its return on the graph that
\* evaluate_with_provenance was called with; evals is the log of that call
EvaluatedSameGraph ==
    /\ pc = "idle"
    /\ history # <<>>
    /\ history[Len(history)].outcome = "returned"
    /\ history[Len(history)].input = fn_call.g

\* C26 Provenance agrees with evaluation: evaluate_with_provenance returns
\* the triples evaluate returns for the same graph; the triples of the
\* provenance list are exactly the returned triples that are not in the input;
\* each entry (t, ruleIndex, stratum) names a rule of that stratum which
\* derived t in the iteration in which t was first added.
C26_ProvenanceAgrees ==
    ProvenanceReturned =>
        /\ ProvenanceTriples(fn_result[1].provenance) = fn_result[1].graph \ fn_call.g
        /\ \A i \in DOMAIN fn_result[1].provenance :
              fn_result[1].provenance[i][2]
                  \in Range(strata[fn_result[1].provenance[i][3] + 1])
        /\ EvaluatedSameGraph =>
              /\ history[Len(history)].value =
                     IF history[Len(history)].results_only
                     THEN fn_result[1].graph \ fn_call.g
                     ELSE fn_result[1].graph
              /\ \A i \in DOMAIN fn_result[1].provenance :
                    \E j \in DOMAIN evals :
                        /\ evals[j].rule = fn_result[1].provenance[i][2]
                        /\ evals[j].stratum = fn_result[1].provenance[i][3]
                        /\ fn_result[1].provenance[i][1] \in evals[j].derived
                        /\ fn_result[1].provenance[i][1] \notin evals[j].read

\* evaluate_with_provenance returned a provenance list with entries of two
\* rules, and evaluate ran on the same graph, adding triples in two
\* iterations of one stratum
C26_Witness ==
    /\ ProvenanceReturned
    /\ EvaluatedSameGraph
    /\ \E i, j \in DOMAIN fn_result[1].provenance :
          fn_result[1].provenance[i][2] # fn_result[1].provenance[j][2]
    /\ \E i, j \in DOMAIN evals :
          /\ evals[i].stratum = evals[j].stratum
          /\ evals[i].iteration # evals[j].iteration
          /\ evals[i].derived \ evals[i].read # {}
          /\ evals[j].derived \ evals[j].read # {}


----------------------------------------------------------------------------
(* The evaluation of IF *)

\* how many times eval_expr was called with the expression e
TimesEvaluated(e, calls) == Cardinality({i \in DOMAIN calls : calls[i] = e})

\* C27 Lazy IF: while eval_builtin evaluates IF(cond, a, b), the branch that
\* the effective boolean value of the condition does not select is never
\* evaluated, and the selected branch is evaluated once.
C27_LazyIf ==
    /\ fn_call.fn = "eval_builtin"
    /\ fn_result # <<>>
    /\ fn_call.call.function_name = "IF"
    => LET arguments == fn_call.call.arguments
           chosen == IF effective_boolean_value(eval_expr(arguments[1], fn_call.mu))
                     THEN 2 ELSE 3
       IN /\ TimesEvaluated(arguments[5 - chosen], fn_result[1].evaluated) = 0
          /\ TimesEvaluated(arguments[chosen], fn_result[1].evaluated) = 1


----------------------------------------------------------------------------
(* Rule sets without negation *)

\* no rule body contains a Negation element
NoNegation(rules) ==
    \A i \in DOMAIN rules : \A k \in DOMAIN rules[i].body :
        rules[i].body[k].type # "NegationElement"

\* C28 No negation, no stratification error: for a rule set without a
\* Negation element, compute_dependencies records no negative dependency and
\* stratification does not raise StratificationError, also when a rule head
\* has a variable as its predicate.
C28_NoNegationNoError ==
    NoNegation(rule_set) =>
        /\ \A i \in DOMAIN dependencies : dependencies[i].negatively_depends_on = {}
        /\ outcome # "StratificationError"


----------------------------------------------------------------------------
(* Stratification of rules with property paths *)

PathTerms ==
    {InversePath(IRI("p")),
     PathSequence(<<IRI("p"), IRI("q")>>),
     PathAlternative(<<IRI("p"), IRI("r")>>),
     PathSequence(<<InversePath(IRI("q")), IRI("r")>>)}

\* {?x hp ?y} WHERE {?x path ?y}
PathRules ==
    {Rule(<<TripleTemplate(vx, hp, vy)>>, <<TriplePattern(vx, path, vy)>>) :
        hp \in HeadPredicateTerms, path \in PathTerms}

\* rule sets of rules with a property path and of rules {?x hp ?y} WHERE
\* {?x bp ?y}
PathRuleSets ==
    UNION {[1..n -> PathRules \cup {r \in GeneratedRules : Len(r.body) = 1}]
           : n \in 1..MaxRules}

InitPath ==
    \E rules \in PathRuleSets : Constructed(rules, {}, MaxIterations) /\ NoFnCall

SpecPath == InitPath /\ [][NextStrat]_vars

\* the predicate IRIs a property path mentions
RECURSIVE PathPredicates(_)
PathPredicates(path) ==
    IF path.type = "IRI" THEN {path.value}
    ELSE IF path.type = "InversePath" THEN PathPredicates(path.path)
    ELSE IF path.type = "PathSequence"
    THEN UNION {PathPredicates(path.elements[i]) : i \in DOMAIN path.elements}
    ELSE IF path.type = "PathAlternative"
    THEN UNION {PathPredicates(path.alternatives[i]) : i \in DOMAIN path.alternatives}
    ELSE {}

\* a positive body pattern of rule ri has a property path mentioning a
\* predicate that a head template of rule rj has, or rj has a variable head
\* predicate
PathCanMatchHead(ri, rj) ==
    \E k \in DOMAIN ri.body, h \in DOMAIN rj.head :
        /\ ri.body[k].type = "TriplePattern"
        /\ ri.body[k].predicate.type \in PropertyPathTypes
        /\ \/ rj.head[h].predicate.type = "Variable"
           \/ /\ rj.head[h].predicate.type = "IRI"
              /\ rj.head[h].predicate.value \in PathPredicates(ri.body[k].predicate)

\* C29 Dependencies through property paths: when a positive body pattern of
\* rule i has a property path mentioning a predicate of a head template of
\* another rule j (or j has a variable head predicate), rule i positively
\* depends on rule j, and rule j is in no later stratum than rule i.
C29_PathDependencies ==
    \A i, j \in 0..(Len(rule_set) - 1) :
        i # j /\ PathCanMatchHead(rule_set[i + 1], rule_set[j + 1]) =>
            /\ dependencies # <<>> => j \in dependencies[i].depends_on
            /\ strata # <<>> => get_rule_stratum(j, strata) <= get_rule_stratum(i, strata)


----------------------------------------------------------------------------
(* Fixpoints of rule sets that create no terms *)

\* {?x ?v ?y} WHERE {?y ?v ?x}: a rule without constants
RuleSymmetric == Rule(<<TripleTemplate(vx, Variable("v"), vy)>>,
                      <<TriplePattern(vy, Variable("v"), vx)>>)

\* the graphs over Nodes, in every position, that lack at most MaxMissing of
\* the possible triples
DenseGraphs ==
    {(Nodes \X Nodes \X Nodes) \ missing :
        missing \in BoundedSubsets(Nodes \X Nodes \X Nodes, MaxMissing)}

\* the engines of SpecProv, and engines for the rule without constants on a
\* dense graph, with every iteration cap up to MaxCap
InitCap ==
    \/ InitProv
    \/ \E g \in DenseGraphs, cap \in 1..MaxCap :
          Constructed(<<RuleSymmetric>>, g, cap) /\ NoFnCall

SpecCap == InitCap /\ [][Next]_vars

\* the constant terms of a triple pattern or template
pattern_constants(tp) ==
    {substitute_term(term, EmptyMapping)
     : term \in {t \in {tp.subject, tp.predicate, tp.object} : t.type # "Variable"}}

\* the constant terms of the heads and bodies of a rule set
RuleConstants(rules) ==
    UNION {UNION {pattern_constants(rules[i].head[k]) : k \in DOMAIN rules[i].head}
           \cup UNION {IF rules[i].body[k].type = "TriplePattern"
                       THEN pattern_constants(rules[i].body[k])
                       ELSE IF rules[i].body[k].type = "NegationElement"
                       THEN UNION {pattern_constants(np)
                                   : np \in Range(rules[i].body[k].body_patterns)}
                       ELSE {}
                       : k \in DOMAIN rules[i].body}
           : i \in DOMAIN rules}

\* the terms a derived triple can be built from in the running call
CallTerms == TermsOf(call_input) \cup RuleConstants(rule_set)

\* the graph the current stratum was entered with
EntryGraph ==
    IF \E e \in Range(evals) : e.stratum = stratum_num /\ e.iteration = 1
    THEN (CHOOSE e \in Range(evals) : e.stratum = stratum_num /\ e.iteration = 1).read
    ELSE Working

\* N: the triples over CallTerms that are not in the graph the stratum was
\* entered with
Underivable ==
    Cardinality(CallTerms) * Cardinality(CallTerms) * Cardinality(CallTerms)
    - Cardinality(EntryGraph)

\* C30 Fixpoint without the cap for term-preserving rule sets (no Bind, no
\* unlabeled blank node in a head): every iteration of a stratum that is
\* followed by another one has added a triple to the graph; every triple of
\* the graph is built from the terms of the input graph and the constants of
\* the rules; so a stratum runs at most N + 1 iterations, N being the number
\* of such triples not in the graph, and when max_iterations > N + 1 it is
\* left by an empty delta, not by the cap.
C30_FixpointWithoutCap ==
    /\ \A i, j \in DOMAIN evals :
          /\ evals[i].stratum = evals[j].stratum
          /\ evals[j].iteration = evals[i].iteration + 1
          => /\ evals[i].read \subseteq evals[j].read
             /\ evals[i].read # evals[j].read
    /\ pc \in {"rules", "after_loop", "return"} =>
          Working \subseteq CallTerms \X CallTerms \X CallTerms
    /\ pc \in {"rules", "after_loop"} => iteration <= Underivable + 1
    /\ pc = "after_loop" /\ max_iterations > Underivable + 1 => broke

\* C30 witness: a stratum whose iteration cap exceeds N + 1 is left after an
\* iteration that added triples and one that added none.
C30_Witness ==
    /\ pc = "after_loop"
    /\ max_iterations > Underivable + 1
    /\ iteration >= 2
    /\ \E e \in Range(evals) : e.stratum = stratum_num /\ e.read # Working

====
